---------------------------- MODULE Spec2Model ----------------------------
(***************************************************************************)
(* cs2pov: alive-segment computation (preprocessor.py), segment merging    *)
(* and the demo-time -> video-time remap of postprocess_video (cli.py).    *)
(*                                                                         *)
(* Ticks are integers.  Python's None for an optional tick is encoded as   *)
(* None == -1 (ticks are never negative).  Seconds are Python floats; they *)
(* are modelled as exact rationals <<numerator, denominator>> in lowest    *)
(* terms, so tick / tickrate is a real division and not the identity.      *)
(***************************************************************************)
EXTENDS Integers, Sequences, FiniteSets, TLC

(***************************************************************************)
(* Bounds of the model.                                                    *)
(***************************************************************************)
MaxTick == 4
MaxRounds == 2
MaxDeaths == 2
MaxSegs == 3
MaxSegTick == 3
MaxVideoSteps == 8
MaxNavSegs == 3
MaxNavTime == 40
MaxTransitions == 2
MaxCommsSegs == 2
MaxStopCalls == 2

None == 0 - 1

(***************************************************************************)
(* Exact rational arithmetic standing for float seconds.                   *)
(***************************************************************************)
Abs(n) == IF n < 0 THEN 0 - n ELSE n

RECURSIVE Gcd(_, _)
Gcd(a, b) == IF b = 0 THEN a ELSE Gcd(b, a % b)

\* n / d for d > 0, in lowest terms.
Rat(n, d) ==
    LET g == Gcd(Abs(n), d)
    IN  IF g = 0 THEN <<0, 1>> ELSE <<n \div g, d \div g>>

RatInt(n) == <<n, 1>>
RatAdd(a, b) == Rat(a[1] * b[2] + b[1] * a[2], a[2] * b[2])
RatSub(a, b) == Rat(a[1] * b[2] - b[1] * a[2], a[2] * b[2])
RatMul(a, b) == Rat(a[1] * b[1], a[2] * b[2])
RatLess(a, b) == a[1] * b[2] < b[1] * a[2]
RatLeq(a, b) == a[1] * b[2] <= b[1] * a[2]
RatMax(a, b) == IF RatLess(a, b) THEN b ELSE a
RatMin(a, b) == IF RatLess(b, a) THEN b ELSE a
\* Python int(x): truncation toward zero.
RatTrunc(a) == IF a[1] >= 0 THEN a[1] \div a[2] ELSE 0 - ((0 - a[1]) \div a[2])

Max(a, b) == IF a > b THEN a ELSE b

\* Python None where a float is expected.
NoTime == <<0, 0>>

\* tick / tickrate (tickrate is a positive rational).
TickTime(tick, tickrate) == Rat(tick * tickrate[2], tickrate[1])

(***************************************************************************)
(* Data model (preprocessor.py dataclasses).                               *)
(***************************************************************************)
DeathEvent(tick, tickrate) ==
    [tick |-> tick, time_seconds |-> TickTime(tick, tickrate)]

OptTime(tick, tickrate) ==
    IF tick = None THEN NoTime ELSE TickTime(tick, tickrate)

RoundBoundary(num, prestart, freeze_end, end, tickrate) ==
    [round_num |-> num,
     prestart_tick |-> prestart,
     prestart_time |-> TickTime(prestart, tickrate),
     freeze_end_tick |-> freeze_end,
     freeze_end_time |-> OptTime(freeze_end, tickrate),
     end_tick |-> end,
     end_time |-> OptTime(end, tickrate)]

AliveSegment(start_tick, end_tick, start_time, end_time, round_num, reason) ==
    [start_tick |-> start_tick,
     end_tick |-> end_tick,
     start_time |-> start_time,
     end_time |-> end_time,
     round_num |-> round_num,
     reason_ended |-> reason]

Reasons == {"death", "round_end", "demo_end"}


(***************************************************************************)
(* Segment computer: _merge_alive_segments (preprocessor.py).              *)
(***************************************************************************)
\* sorted(segments, key=lambda s: s.start_tick): a stable sort, here the
\* insertion of each element behind the elements whose key is <= its own.
RECURSIVE InsertByStartTick(_, _)
InsertByStartTick(sorted, s) ==
    IF sorted = <<>> THEN <<s>>
    ELSE IF Head(sorted).start_tick <= s.start_tick
         THEN <<Head(sorted)>> \o InsertByStartTick(Tail(sorted), s)
         ELSE <<s>> \o sorted

RECURSIVE SortByStartTick(_)
SortByStartTick(segments) ==
    IF segments = <<>> THEN <<>>
    ELSE InsertByStartTick(SortByStartTick(SubSeq(segments, 1, Len(segments) - 1)),
                           segments[Len(segments)])

\* Variant: only a strict overlap is fused.
OverlapsStrictly(prev, current) == current.start_tick < prev.end_tick

\* Whether the loop body takes the "overlaps or is adjacent" branch.
Overlaps(prev, current) == current.start_tick <= prev.end_tick

\* Variant: the fused segment takes the current segment's end unconditionally.
MergeStepNoEndCheck(merged, current) ==
    LET prev == merged[Len(merged)]
    IN  IF Overlaps(prev, current)
        THEN [merged EXCEPT ![Len(merged)] =
                 AliveSegment(prev.start_tick, current.end_tick,
                              prev.start_time, current.end_time,
                              prev.round_num, current.reason_ended)]
        ELSE Append(merged, current)

\* Variant: the fused segment keeps the previous segment's end_time.
MergeStepStaleEndTime(merged, current) ==
    LET prev == merged[Len(merged)]
    IN  IF Overlaps(prev, current)
        THEN IF current.end_tick > prev.end_tick
             THEN [merged EXCEPT ![Len(merged)] =
                      AliveSegment(prev.start_tick, current.end_tick,
                                   prev.start_time, prev.end_time,
                                   prev.round_num, current.reason_ended)]
             ELSE merged
        ELSE Append(merged, current)

\* One iteration of the loop body over `current`, given the output so far.
MergeStep(merged, current) ==
    LET prev == merged[Len(merged)]
    IN  IF Overlaps(prev, current)
        THEN IF current.end_tick > prev.end_tick
             THEN [merged EXCEPT ![Len(merged)] =
                      AliveSegment(prev.start_tick, current.end_tick,
                                   prev.start_time, current.end_time,
                                   prev.round_num, current.reason_ended)]
             ELSE merged
        ELSE Append(merged, current)

\* Variant: each segment is compared with the segment before it in the sorted
\* input instead of with the last output segment.
RECURSIVE MergeLoopAgainstInput(_, _, _)
MergeLoopAgainstInput(sorted_segments, i, merged) ==
    IF i > Len(sorted_segments) THEN merged
    ELSE MergeLoopAgainstInput(sorted_segments, i + 1,
             IF Overlaps(sorted_segments[i - 1], sorted_segments[i])
             THEN MergeStep(merged, sorted_segments[i])
             ELSE Append(merged, sorted_segments[i]))

RECURSIVE MergeLoop(_, _, _)
MergeLoop(sorted_segments, i, merged) ==
    IF i > Len(sorted_segments) THEN merged
    ELSE MergeLoop(sorted_segments, i + 1, MergeStep(merged, sorted_segments[i]))

\* The loop's iterations in order: the output's last segment before (prev),
\* the segment taken (current) and the output's last segment after.
RECURSIVE MergeTrace(_, _, _)
MergeTrace(sorted_segments, i, merged) ==
    IF i > Len(sorted_segments) THEN <<>>
    ELSE LET next == MergeStep(merged, sorted_segments[i])
         IN  <<[prev |-> merged[Len(merged)],
                current |-> sorted_segments[i],
                after |-> next[Len(next)]]>>
             \o MergeTrace(sorted_segments, i + 1, next)

MergeSteps(segments) ==
    IF segments = <<>> THEN <<>>
    ELSE LET sorted_segments == SortByStartTick(segments)
         IN  MergeTrace(sorted_segments, 2, <<sorted_segments[1]>>)

_merge_alive_segments(segments) ==
    IF segments = <<>> THEN <<>>
    ELSE LET sorted_segments == SortByStartTick(segments)
         IN  MergeLoop(sorted_segments, 2, <<sorted_segments[1]>>)

(***************************************************************************)
(* Segment computer: compute_alive_segments (preprocessor.py).             *)
(***************************************************************************)
FreezeEstimateSeconds == 15

\* Variant: the buffer's seconds taken for ticks.
BufferTicksIgnoringRate(buffer_seconds, tickrate) == RatTrunc(buffer_seconds)

\* int(buffer_seconds * tickrate)
BufferTicks(buffer_seconds, tickrate) == RatTrunc(RatMul(buffer_seconds, tickrate))

\* Variant: without freeze_end the segment starts from prestart, no estimate added.
SegmentStartTickFromPrestart(r, tickrate, buffer_before_round) ==
    LET buffer_before_ticks == BufferTicks(buffer_before_round, tickrate)
        raw == IF r.freeze_end_tick # None
               THEN r.freeze_end_tick - buffer_before_ticks
               ELSE r.prestart_tick - buffer_before_ticks
    IN  Max(0, raw)

SegmentStartTick(r, tickrate, buffer_before_round) ==
    LET buffer_before_ticks == BufferTicks(buffer_before_round, tickrate)
        raw == IF r.freeze_end_tick # None
               THEN r.freeze_end_tick - buffer_before_ticks
               ELSE r.prestart_tick
                    + RatTrunc(RatMul(RatInt(FreezeEstimateSeconds), tickrate))
                    - buffer_before_ticks
    IN  Max(0, raw)

\* `r.freeze_end_tick if r.freeze_end_tick else r.prestart_tick`: a freeze_end
\* tick of 0 is falsy, like None.
RoundStartTick(r) ==
    IF r.freeze_end_tick # None /\ r.freeze_end_tick # 0
    THEN r.freeze_end_tick
    ELSE r.prestart_tick

RoundEndTick(rounds, i, total_ticks) ==
    IF rounds[i].end_tick # None THEN rounds[i].end_tick
    ELSE IF i + 1 <= Len(rounds) THEN rounds[i + 1].prestart_tick
         ELSE total_ticks

\* Variant: the end of the span is exclusive.
RECURSIVE FirstDeathBeforeEnd(_, _, _, _)
FirstDeathBeforeEnd(deaths, j, lo, hi) ==
    IF j > Len(deaths) THEN 0
    ELSE IF lo <= deaths[j].tick /\ deaths[j].tick < hi THEN j
         ELSE FirstDeathBeforeEnd(deaths, j + 1, lo, hi)

\* Index of the first death of the list, in list order, whose tick lies in
\* [lo, hi]; 0 when there is none (death_in_round is None).
RECURSIVE FirstDeathFrom(_, _, _, _)
FirstDeathFrom(deaths, j, lo, hi) ==
    IF j > Len(deaths) THEN 0
    ELSE IF lo <= deaths[j].tick /\ deaths[j].tick <= hi THEN j
         ELSE FirstDeathFrom(deaths, j + 1, lo, hi)

DeathInRound(deaths, rounds, i, total_ticks) ==
    FirstDeathFrom(deaths, 1, RoundStartTick(rounds[i]),
                   RoundEndTick(rounds, i, total_ticks))

\* The segment the loop body computes for round i, before the end > start test.
RoundSegment(deaths, rounds, i, tickrate, total_ticks, buffer_before_round, buffer_after_round_end) ==
    LET r == rounds[i]
        segment_start_tick == SegmentStartTick(r, tickrate, buffer_before_round)
        d == DeathInRound(deaths, rounds, i, total_ticks)
        segment_end_tick ==
            IF d # 0 THEN deaths[d].tick
            ELSE IF r.end_tick # None
                 THEN r.end_tick + BufferTicks(buffer_after_round_end, tickrate)
                 ELSE RoundEndTick(rounds, i, total_ticks)
        reason == IF d # 0 THEN "death"
                  ELSE IF r.end_tick # None THEN "round_end" ELSE "demo_end"
    IN  AliveSegment(segment_start_tick, segment_end_tick,
                     TickTime(segment_start_tick, tickrate),
                     TickTime(segment_end_tick, tickrate),
                     r.round_num, reason)

\* Create segment if valid (end > start).
SegmentValid(seg) == seg.end_tick > seg.start_tick

\* The list alive_segments as the loop leaves it, before the merge.
RECURSIVE RoundSegments(_, _, _, _, _, _, _)
RoundSegments(deaths, rounds, n, tickrate, total_ticks, buffer_before_round, buffer_after_round_end) ==
    IF n = 0 THEN <<>>
    ELSE LET before == RoundSegments(deaths, rounds, n - 1, tickrate, total_ticks,
                                     buffer_before_round, buffer_after_round_end)
             seg == RoundSegment(deaths, rounds, n, tickrate, total_ticks,
                                 buffer_before_round, buffer_after_round_end)
         IN  IF SegmentValid(seg) THEN Append(before, seg) ELSE before

compute_alive_segments(deaths, rounds, tickrate, total_ticks, buffer_before_round, buffer_after_round_end) ==
    IF rounds = <<>> THEN <<>>
    ELSE _merge_alive_segments(
             RoundSegments(deaths, rounds, Len(rounds), tickrate, total_ticks,
                           buffer_before_round, buffer_after_round_end))


(***************************************************************************)
(* State.                                                                  *)
(***************************************************************************)
VARIABLES
    pc,                       \* position of the component under analysis
    deaths,                   \* compute_alive_segments arguments
    rounds,
    tickrate,
    total_ticks,
    buffer_before_round,
    buffer_after_round_end,
    round_candidates,         \* per round: the segment computed before the end > start test
    per_round_segments,       \* local alive_segments, as the round loop leaves it
    alive_segments,           \* the list compute_alive_segments returns
    merge_steps,              \* the iterations of _merge_alive_segments' loop
    remerged,                 \* _merge_alive_segments applied to its own result
    total_duration,           \* DemoTimeline.total_duration (header)
    demo_end_tick,            \* parse_demo_end_info(console_log_path).tick, or None
    video_duration,           \* get_video_duration(video_path)
    startup_time_override,    \* postprocess_video argument, NoTime for None
    demo_duration,            \* postprocess_video locals
    startup_time,
    video_segments,
    post_outcome,             \* how postprocess_video went on after the remap
    nav_pc,                   \* position in recording_loop_tick_nav
    exit_reason,              \* its first return value, "none" while it runs
    timeout,                  \* its timeout argument, in tenths of a second
    current_segment_index,    \* NavigationState.current_segment_index
    transitions,              \* NavigationState.transitions
    clock,                    \* time.time() - start_time, in tenths of a second
    last_spec_lock,
    window_id,                \* TRUE when a CS2 window id is held, FALSE for None
    console_log,              \* the lines of console.log the loop looks for
    log_position,
    death_log_position,
    commands,                 \* keys and console commands sent by the loop
    deaths_seen,              \* death signals check_death_in_console reported
    demo_tick,                \* the viewer: playback position,
    demo_paused,              \* paused or playing,
    demo_final_tick,          \* and the tick at which the demo runs out
    cs2_running,              \* cs2_process.is_running()
    ffmpeg_running,           \* ffmpeg.is_running()
    rec_pc,                   \* position in record_demo and _run_single_pov
    use_tick_nav,             \* record_demo: tick navigation chosen
    no_trim,                  \* args.no_trim
    log_exists,               \* console_log_path.exists() at cleanup
    teardown,                 \* what the finally block did, in order
    raised,                   \* an exception leaves record_demo
    success,                  \* RecordingResult.success
    trim_started,             \* _run_single_pov called postprocess_video
    video_file,               \* what is at video_path
    raw_file,                 \* what is at the _raw path beside it
    executor_result,          \* how extract_and_concat_segments ended
    round1_freeze_end_time,   \* compute_comms_segments: its arguments
    r1_sync_time,
    comms_segments,           \* and its result
    cli_args,                 \* argparse namespace: setting -> value, "None" if not given
    config_defaults,          \* ProjectConfig.defaults: setting -> value, "absent" if no key
    job_overrides,            \* JobConfig.overrides, likewise
    batch_mode,               \* _run_batch runs the config's jobs
    merged_args,              \* the namespace the job runs with
    capture_handle,           \* FFmpegCapture.process is not None
    capture_alive,            \* the ffmpeg process has not exited
    stop_pc,                  \* position in FFmpegCapture.stop
    stop_timeout,             \* its timeout argument, seconds
    stop_sent,                \* what the current call sent to the process, in order
    stop_elapsed,             \* seconds spent in the current wait
    stop_waits,               \* how long each expired wait of the current call lasted
    graceful,                 \* local variable of stop
    stop_results              \* the calls so far: value returned, and whether there was a process

segVars == <<deaths, rounds, tickrate, total_ticks, buffer_before_round, buffer_after_round_end, round_candidates, per_round_segments, alive_segments>>

mergeVars == <<merge_steps, remerged>>

alignVars == <<total_duration, demo_end_tick, video_duration, startup_time_override, demo_duration, startup_time, video_segments, post_outcome>>

loopVars == <<nav_pc, exit_reason, timeout, current_segment_index, transitions, clock, last_spec_lock, window_id, log_position, death_log_position, commands, deaths_seen>>

viewerVars == <<console_log, demo_tick, demo_paused, demo_final_tick, cs2_running, ffmpeg_running>>

navVars == <<loopVars, viewerVars>>

recVars == <<rec_pc, use_tick_nav, no_trim, log_exists, teardown, raised, success, trim_started>>

execVars == <<video_file, raw_file, executor_result>>

commsVars == <<round1_freeze_end_time, r1_sync_time, comms_segments>>

settingsVars == <<cli_args, config_defaults, job_overrides, batch_mode, merged_args>>

stopVars == <<capture_handle, capture_alive, stop_pc, stop_timeout, stop_sent, stop_elapsed, stop_waits, graceful, stop_results>>

extVars == <<execVars, commsVars, settingsVars, stopVars>>

vars == <<pc, segVars, mergeVars, alignVars, navVars, recVars, extVars>>

(***************************************************************************)
(* Inputs of the segment computer.                                         *)
(***************************************************************************)
Ticks == 0 .. MaxTick
OptTicks == {None} \cup Ticks

\* <<prestart, freeze_end, end>> as _extract_round_boundaries builds them: the
\* freeze_end and the round_end found for a round are after its prestart, and
\* freeze_end <= end where both are present (the RoundBoundary invariant).
RoundShapes ==
    {sh \in Ticks \X OptTicks \X OptTicks :
        /\ sh[2] # None => sh[1] < sh[2]
        /\ sh[3] # None => sh[1] < sh[3]
        /\ (sh[2] # None /\ sh[3] # None) => sh[2] <= sh[3]}

LastTickOf(sh) == Max(sh[1], Max(sh[2], sh[3]))

\* Rounds follow each other: a round's prestart comes after the previous
\* round's ticks (_extract_round_boundaries takes prestarts in tick order and
\* a round_end before the next prestart).
RECURSIVE RoundShapeLists(_)
RoundShapeLists(n) ==
    IF n = 0 THEN {<<>>}
    ELSE UNION {{Append(shs, sh) : sh \in {x \in RoundShapes : shs = <<>> \/ x[1] > LastTickOf(shs[Len(shs)])}} : shs \in RoundShapeLists(n - 1)}

AllRoundShapeLists == UNION {RoundShapeLists(n) : n \in 0 .. MaxRounds}

\* deaths.sort(key=lambda d: d.tick): death ticks in ascending order.
RECURSIVE DeathTickLists(_)
DeathTickLists(n) ==
    IF n = 0 THEN {<<>>}
    ELSE UNION {{Append(ds, t) : t \in {x \in Ticks : ds = <<>> \/ x > ds[Len(ds)]}} : ds \in DeathTickLists(n - 1)}

AllDeathTickLists == UNION {DeathTickLists(n) : n \in 0 .. MaxDeaths}

\* <<tickrate, buffer_before_round, buffer_after_round_end>>, seconds as rationals.
Configs ==
    {<<RatInt(1), RatInt(0), RatInt(0)>>,
     <<RatInt(1), Rat(3, 2), RatInt(2)>>,
     <<RatInt(2), RatInt(1), Rat(1, 2)>>,
     <<RatInt(1), RatInt(FreezeEstimateSeconds), RatInt(1)>>}

MkRounds(shs, rate) ==
    [i \in 1 .. Len(shs) |-> RoundBoundary(i, shs[i][1], shs[i][2], shs[i][3], rate)]

MkDeaths(ds, rate) == [j \in 1 .. Len(ds) |-> DeathEvent(ds[j], rate)]

\* header.get("playback_ticks", 0). The value is read only for a last round
\* without end_tick; elsewhere one value stands for all.
TotalTicksFor(shs) ==
    IF Len(shs) > 0 /\ shs[Len(shs)][3] = None THEN {0, MaxTick} ELSE {MaxTick}

InitBounded ==
    \E shs \in AllRoundShapeLists, ds \in AllDeathTickLists, cfg \in Configs :
        /\ tickrate = cfg[1]
        /\ buffer_before_round = cfg[2]
        /\ buffer_after_round_end = cfg[3]
        /\ rounds = MkRounds(shs, cfg[1])
        /\ deaths = MkDeaths(ds, cfg[1])
        /\ total_ticks \in TotalTicksFor(shs)

\* The worked example: tick rate 64, one round with freeze_end 640 and end
\* 6400, default buffers 5 s / 2 s, no death or one death at tick 3200.
InitScenario ==
    /\ tickrate = RatInt(64)
    /\ buffer_before_round = RatInt(5)
    /\ buffer_after_round_end = RatInt(2)
    /\ rounds = MkRounds(<<<<0, 640, 6400>>>>, RatInt(64))
    /\ deaths \in {<<>>, MkDeaths(<<3200>>, RatInt(64))}
    /\ total_ticks = 7000

\* postprocess_video has not been entered.
AlignIdle ==
    /\ total_duration = RatInt(0)
    /\ demo_end_tick = None
    /\ video_duration = RatInt(0)
    /\ startup_time_override = NoTime
    /\ demo_duration = RatInt(0)
    /\ startup_time = RatInt(0)
    /\ video_segments = <<>>
    /\ post_outcome = "none"

\* No recording session is running.
NavIdle ==
    /\ nav_pc = "idle"
    /\ exit_reason = "none"
    /\ timeout = 0
    /\ current_segment_index = 0
    /\ transitions = <<>>
    /\ clock = 0
    /\ last_spec_lock = 0
    /\ window_id = FALSE
    /\ console_log = <<>>
    /\ log_position = 0
    /\ death_log_position = 0
    /\ commands = <<>>
    /\ deaths_seen = 0
    /\ demo_tick = 0
    /\ demo_paused = FALSE
    /\ demo_final_tick = 0
    /\ cs2_running = FALSE
    /\ ffmpeg_running = FALSE

\* record_demo is not running.
RecIdle ==
    /\ rec_pc = "idle"
    /\ use_tick_nav = FALSE
    /\ no_trim = FALSE
    /\ log_exists = FALSE
    /\ teardown = <<>>
    /\ raised = FALSE
    /\ success = FALSE
    /\ trim_started = FALSE

\* postprocess_video has not touched any file.
ExecIdle ==
    /\ video_file = "none"
    /\ raw_file = "none"
    /\ executor_result = "not_run"

\* compute_comms_segments has not been called.
CommsIdle ==
    /\ round1_freeze_end_time = RatInt(0)
    /\ r1_sync_time = RatInt(0)
    /\ comms_segments = <<>>

\* No demo has been parsed.
SegIdle ==
    /\ deaths = <<>>
    /\ rounds = <<>>
    /\ tickrate = RatInt(1)
    /\ total_ticks = 0
    /\ buffer_before_round = RatInt(5)
    /\ buffer_after_round_end = RatInt(2)
    /\ round_candidates = <<>>
    /\ per_round_segments = <<>>
    /\ alive_segments = <<>>
    /\ merge_steps = <<>>
    /\ remerged = <<>>

\* No job is being set up.
SettingsIdle ==
    /\ cli_args = <<>>
    /\ config_defaults = <<>>
    /\ job_overrides = <<>>
    /\ batch_mode = FALSE
    /\ merged_args = <<>>

\* No FFmpegCapture exists.
StopIdle ==
    /\ capture_handle = FALSE
    /\ capture_alive = FALSE
    /\ stop_pc = "idle"
    /\ stop_timeout = 0
    /\ stop_sent = <<>>
    /\ stop_elapsed = 0
    /\ stop_waits = <<>>
    /\ graceful = TRUE
    /\ stop_results = <<>>

ExtIdle == ExecIdle /\ CommsIdle /\ SettingsIdle /\ StopIdle

Init ==
    /\ pc = "input"
    /\ AlignIdle
    /\ NavIdle
    /\ RecIdle
    /\ ExtIdle
    /\ InitBounded \/ InitScenario
    /\ round_candidates = <<>>
    /\ per_round_segments = <<>>
    /\ alive_segments = <<>>
    /\ merge_steps = <<>>
    /\ remerged = <<>>

\* compute_alive_segments, as preprocess_demo calls it.
ComputeAliveSegments ==
    /\ pc = "input"
    /\ pc' = "computed"
    /\ round_candidates' =
           [i \in 1 .. Len(rounds) |-> RoundSegment(deaths, rounds, i, tickrate, total_ticks, buffer_before_round, buffer_after_round_end)]
    /\ per_round_segments' =
           RoundSegments(deaths, rounds, Len(rounds), tickrate, total_ticks, buffer_before_round, buffer_after_round_end)
    /\ alive_segments' =
           compute_alive_segments(deaths, rounds, tickrate, total_ticks, buffer_before_round, buffer_after_round_end)
    /\ merge_steps' =
           MergeSteps(RoundSegments(deaths, rounds, Len(rounds), tickrate, total_ticks, buffer_before_round, buffer_after_round_end))
    /\ UNCHANGED <<deaths, rounds, tickrate, total_ticks, buffer_before_round, buffer_after_round_end, remerged>>
    /\ UNCHANGED <<alignVars, navVars, recVars, extVars>>

Next == ComputeAliveSegments

Spec == Init /\ [][Next]_vars

(***************************************************************************)
(* _merge_alive_segments on its own: any list of segments with             *)
(* end_tick > start_tick, merged once and then once more.                  *)
(***************************************************************************)
SegTicks == 0 .. MaxSegTick

MergeTickRate == RatInt(2)

\* <<start_tick, end_tick>>
SegShapes == {sh \in SegTicks \X SegTicks : sh[1] < sh[2]}

RECURSIVE SegShapeLists(_)
SegShapeLists(n) ==
    IF n = 0 THEN {<<>>}
    ELSE {Append(shs, sh) : shs \in SegShapeLists(n - 1), sh \in SegShapes}

AllSegShapeLists == UNION {SegShapeLists(n) : n \in 0 .. MaxSegs}

\* reason_ended of the odd-numbered and of the even-numbered segments.
ReasonPatterns == {<<"death", "round_end">>, <<"round_end", "death">>}

MkSegments(shs, pattern, rate) ==
    [k \in 1 .. Len(shs) |->
        AliveSegment(shs[k][1], shs[k][2], TickTime(shs[k][1], rate),
                     TickTime(shs[k][2], rate), k, pattern[2 - (k % 2)])]

InitMerge ==
    /\ pc = "merge_input"
    /\ AlignIdle
    /\ NavIdle
    /\ RecIdle
    /\ ExtIdle
    /\ \E shs \in AllSegShapeLists, pattern \in ReasonPatterns :
           per_round_segments = MkSegments(shs, pattern, MergeTickRate)
    /\ tickrate = MergeTickRate
    /\ deaths = <<>>
    /\ rounds = <<>>
    /\ total_ticks = 0
    /\ buffer_before_round = RatInt(0)
    /\ buffer_after_round_end = RatInt(0)
    /\ round_candidates = <<>>
    /\ alive_segments = <<>>
    /\ merge_steps = <<>>
    /\ remerged = <<>>

MergeAliveSegments ==
    /\ pc = "merge_input"
    /\ pc' = "merged"
    /\ alive_segments' = _merge_alive_segments(per_round_segments)
    /\ merge_steps' = MergeSteps(per_round_segments)
    /\ UNCHANGED <<deaths, rounds, tickrate, total_ticks, buffer_before_round, buffer_after_round_end, round_candidates, per_round_segments, remerged>>
    /\ UNCHANGED <<alignVars, navVars, recVars, extVars>>

MergeAgain ==
    /\ pc = "merged"
    /\ pc' = "remerged"
    /\ remerged' = _merge_alive_segments(alive_segments)
    /\ UNCHANGED <<segVars, merge_steps>>
    /\ UNCHANGED <<alignVars, navVars, recVars, extVars>>

NextMerge == MergeAliveSegments \/ MergeAgain

SpecMerge == InitMerge /\ [][NextMerge]_vars


(***************************************************************************)
(* Clock aligner: the alive-segment path of postprocess_video (cli.py).    *)
(***************************************************************************)
DurationBufferSeconds == 5

\* 0.5: the shortest span that is kept.
MinKeepSeconds == Rat(1, 2)

\* Method 3: reversed(timeline.rounds), first round with an end_tick.
RECURSIVE LastRoundEndDuration(_, _)
LastRoundEndDuration(rs, i) ==
    IF i = 0 THEN RatInt(0)
    ELSE IF rs[i].end_tick # None
         THEN RatAdd(rs[i].end_time, RatInt(DurationBufferSeconds))
         ELSE LastRoundEndDuration(rs, i - 1)

\* Variant: the header's duration is tried before the end marker.
ResolveDemoDurationHeaderFirst(end_tick, rate, header_duration, rs, segs) ==
    LET d1 == IF RatLess(RatInt(0), header_duration) THEN header_duration ELSE RatInt(0)
        d2 == IF d1 = RatInt(0) /\ end_tick # None /\ RatLess(RatInt(0), rate)
              THEN TickTime(end_tick, rate)
              ELSE d1
        d3 == IF d2 = RatInt(0) /\ rs # <<>>
              THEN LastRoundEndDuration(rs, Len(rs))
              ELSE d2
        d4 == IF d3 = RatInt(0) /\ segs # <<>>
              THEN RatAdd(segs[Len(segs)].end_time, RatInt(DurationBufferSeconds))
              ELSE d3
    IN  d4

\* Variant: only the end marker and the header are consulted.
ResolveDemoDurationMarkerOrHeader(end_tick, rate, header_duration, rs, segs) ==
    LET d1 == IF end_tick # None /\ RatLess(RatInt(0), rate)
              THEN TickTime(end_tick, rate)
              ELSE RatInt(0)
    IN  IF d1 = RatInt(0) /\ RatLess(RatInt(0), header_duration) THEN header_duration ELSE d1

\* Variant: the alive segments are not consulted.
ResolveDemoDurationWithoutSegments(end_tick, rate, header_duration, rs, segs) ==
    LET d2 == ResolveDemoDurationMarkerOrHeader(end_tick, rate, header_duration, rs, segs)
    IN  IF d2 = RatInt(0) /\ rs # <<>> THEN LastRoundEndDuration(rs, Len(rs)) ELSE d2

\* Step 2: demo_duration, 0.0 while no method has set it.
ResolveDemoDuration(end_tick, rate, header_duration, rs, segs) ==
    LET d1 == IF end_tick # None /\ RatLess(RatInt(0), rate)
              THEN TickTime(end_tick, rate)
              ELSE RatInt(0)
        d2 == IF d1 = RatInt(0) /\ RatLess(RatInt(0), header_duration)
              THEN header_duration
              ELSE d1
        d3 == IF d2 = RatInt(0) /\ rs # <<>>
              THEN LastRoundEndDuration(rs, Len(rs))
              ELSE d2
        d4 == IF d3 = RatInt(0) /\ segs # <<>>
              THEN RatAdd(segs[Len(segs)].end_time, RatInt(DurationBufferSeconds))
              ELSE d3
    IN  d4

\* Variant: a negative difference is used as it is.
StartupTimeUnclamped(v_duration, d_duration, override) ==
    IF override # NoTime THEN override ELSE RatSub(v_duration, d_duration)

\* Variant: an override is clamped at 0 like a computed offset.
StartupTimeOverrideClamped(v_duration, d_duration, override) ==
    LET raw == IF override # NoTime THEN override ELSE RatSub(v_duration, d_duration)
    IN  IF RatLess(raw, RatInt(0)) THEN RatInt(0) ELSE raw

\* Step 3: startup_time.
StartupTime(v_duration, d_duration, override) ==
    IF override # NoTime THEN override
    ELSE LET raw == RatSub(v_duration, d_duration)
         IN  IF RatLess(raw, RatInt(0)) THEN RatInt(0) ELSE raw

\* Variant: video_end is not clamped to the video's duration.
VideoSpanEndUnclamped(seg, startup, v_duration) ==
    <<RatMax(RatInt(0), RatAdd(startup, seg.start_time)), RatAdd(startup, seg.end_time)>>

\* Step 4, one segment: <<video_start, video_end>> clamped to the video bounds.
VideoSpan(seg, startup, v_duration) ==
    <<RatMax(RatInt(0), RatAdd(startup, seg.start_time)),
      RatMin(v_duration, RatAdd(startup, seg.end_time))>>

\* Only include if segment has meaningful duration.
\* Variant: a span of exactly the minimum is kept.
MeaningfulOrMinimum(span) == RatLeq(RatAdd(span[1], MinKeepSeconds), span[2])

Meaningful(span) == RatLess(RatAdd(span[1], MinKeepSeconds), span[2])

RECURSIVE VideoSegments(_, _, _, _)
VideoSegments(segs, n, startup, v_duration) ==
    IF n = 0 THEN <<>>
    ELSE LET before == VideoSegments(segs, n - 1, startup, v_duration)
             span == VideoSpan(segs[n], startup, v_duration)
         IN  IF Meaningful(span) THEN Append(before, span) ELSE before

\* preprocess_demo: total_duration = total_ticks / tickrate if tickrate > 0 else 0.
HeaderDuration(ticks, rate) ==
    IF RatLess(RatInt(0), rate) THEN TickTime(ticks, rate) ELSE RatInt(0)

\* One tick every five seconds: the fixed buffers of preprocess_demo are
\* then one tick before a round and int(0.4) = 0 ticks after it.
AlignTickRate == Rat(1, 5)

\* One tick every two seconds: int(2.5) = 2 ticks before a round and one
\* tick after it.
AlignTickRateHalf == Rat(1, 2)

AlignTickRates == {AlignTickRate, AlignTickRateHalf}

HalfSecs(k) == Rat(k, 2)

\* Half a second, a second, and multiples of 2.5 s.
VideoDurations ==
    {HalfSecs(k) : k \in 0 .. 2} \cup {RatMul(RatInt(j), Rat(5, 2)) : j \in 1 .. MaxVideoSteps}

\* --startup-time values, NoTime when the option is not given.
StartupOverrides == {NoTime, HalfSecs(0 - 5), HalfSecs(0 - 1), HalfSecs(1), RatInt(5)}

\* Tick of the demo end marker in console.log, None without a marker.
EndMarkerTicks == {None, 0, 2}

InitAlignBounded ==
    \E shs \in AllRoundShapeLists :
        /\ tickrate \in AlignTickRates
        /\ buffer_before_round = RatInt(5)
        /\ buffer_after_round_end = RatInt(2)
        /\ rounds = MkRounds(shs, tickrate)
        /\ deaths = <<>>
        /\ total_ticks \in {0, MaxTick}
        /\ demo_end_tick \in EndMarkerTicks
        /\ video_duration \in VideoDurations
        /\ startup_time_override \in StartupOverrides

\* The worked example: video 150 s, demo 120 s (header), one alive segment
\* from 10 s to 100 s at tick rate 64.
InitAlignScenario ==
    /\ tickrate = RatInt(64)
    /\ buffer_before_round = RatInt(5)
    /\ buffer_after_round_end = RatInt(2)
    /\ rounds = MkRounds(<<<<0, 960, 6272>>>>, RatInt(64))
    /\ deaths = <<>>
    /\ total_ticks = 7680
    /\ demo_end_tick = None
    /\ video_duration = RatInt(150)
    /\ startup_time_override = NoTime

\* The timeline is the one preprocess_demo builds from the inputs.
InitAlign ==
    /\ pc = "post_input"
    /\ NavIdle
    /\ RecIdle
    /\ ExtIdle
    /\ InitAlignBounded \/ InitAlignScenario
    /\ round_candidates = <<>>
    /\ per_round_segments = <<>>
    /\ alive_segments =
           compute_alive_segments(deaths, rounds, tickrate, total_ticks, buffer_before_round, buffer_after_round_end)
    /\ total_duration = HeaderDuration(total_ticks, tickrate)
    /\ merge_steps = <<>>
    /\ remerged = <<>>
    /\ demo_duration = RatInt(0)
    /\ startup_time = RatInt(0)
    /\ video_segments = <<>>
    /\ post_outcome = "none"

\* postprocess_video without transitions, from "calculating segments to keep"
\* to the decision whether the trim executor is run.
PostprocessVideo ==
    /\ pc = "post_input"
    /\ pc' = "post_done"
    /\ IF alive_segments = <<>>
       THEN /\ post_outcome' = "keep_original"
            /\ UNCHANGED <<demo_duration, startup_time, video_segments>>
       ELSE LET d == ResolveDemoDuration(demo_end_tick, tickrate, total_duration, rounds, alive_segments)
                st == StartupTime(video_duration, d, startup_time_override)
                vs == VideoSegments(alive_segments, Len(alive_segments), st, video_duration)
            IN  /\ demo_duration' = d
                /\ IF d = RatInt(0)
                   THEN /\ post_outcome' = "no_demo_duration"
                        /\ UNCHANGED <<startup_time, video_segments>>
                   ELSE /\ startup_time' = st
                        /\ video_segments' = vs
                        /\ post_outcome' = IF vs # <<>> THEN "trim" ELSE "keep_original"
    /\ UNCHANGED <<segVars, mergeVars, navVars, recVars, extVars>>
    /\ UNCHANGED <<total_duration, demo_end_tick, video_duration, startup_time_override>>

NextAlign == PostprocessVideo

SpecAlign == InitAlign /\ [][NextAlign]_vars

(***************************************************************************)
(* Tick navigation: recording_loop_tick_nav and handle_death               *)
(* (navigation.py), with the viewer and its console.log as environment.    *)
(* Times are in tenths of a second.                                        *)
(***************************************************************************)
PauseSleep == 3
SeekSleep == 20
LockSleep == 3
LoopSleep == 5
SpecLockPeriod == 30

GotoTransition(pause_video_time, unpause_video_time, from_tick, to_tick) ==
    [pause_video_time |-> pause_video_time,
     unpause_video_time |-> unpause_video_time,
     from_tick |-> from_tick,
     to_tick |-> to_tick]

\* Lines of console.log: "CGameRules - paused on tick <tick>" and
\* "[Prediction] Shutdown prediction for player slot <player_slot>".
PausedLine(tick, by_loop) == [kind |-> "paused", tick |-> tick, by_loop |-> by_loop]
ShutdownLine(tick) == [kind |-> "shutdown", tick |-> tick, by_loop |-> FALSE]

Command(key, arg) == [key |-> key, arg |-> arg]

compute_goto_tick(target_start_tick, tick_offset) == Max(0, target_start_tick - tick_offset)

\* The lines after a file position.
Unread(log, position) == {k \in 1 .. Len(log) : k > position}

\* Variant: any pause line ends the demo (check_demo_ended).
check_demo_ended_any_pause(log, last_position, min_end_tick) ==
    \E k \in Unread(log, last_position) : log[k].kind = "paused"

check_demo_ended_tick_aware(log, last_position, min_end_tick) ==
    \E k \in Unread(log, last_position) : log[k].kind = "paused" /\ log[k].tick >= min_end_tick

check_death_in_console(log, last_position) ==
    \E k \in Unread(log, last_position) : log[k].kind = "shutdown"

\* The viewer on F7 (demo_pause): a playing demo pauses and logs the tick.
ViewerPause(st) ==
    IF st.paused THEN st
    ELSE [st EXCEPT !.paused = TRUE, !.log = Append(@, PausedLine(st.tick, TRUE))]

send_key(st, key) ==
    LET sent == [st EXCEPT !.commands = Append(@, Command(key, 0))]
    IN  IF key = "F7" THEN ViewerPause(sent)
        ELSE IF key = "F6" THEN [sent EXCEPT !.paused = FALSE]
        ELSE sent

\* demo_gototick <tick>
send_console_command(st, tick) ==
    [st EXCEPT !.commands = Append(@, Command("demo_gototick", tick)), !.tick = tick]

sleep(st, tenths) == [st EXCEPT !.now = @ + tenths]

\* Variant: the last segment is taken for the end of the list.
handle_death_one_short(st, segs) ==
    LET pause_video_time == st.now
        paused == sleep(send_key(st, "F7"), PauseSleep)
        index == st.index + 1
    IN  IF index >= Len(segs) - 1
        THEN [paused EXCEPT
                 !.index = index,
                 !.transitions = Append(@, GotoTransition(pause_video_time, pause_video_time, 0, 0)),
                 !.has_more = FALSE]
        ELSE LET target_tick == segs[index + 1].start_tick
                 sought == sleep(send_console_command(paused, target_tick), SeekSleep)
                 resumed == send_key(sleep(send_key(sought, "F5"), LockSleep), "F6")
             IN  [resumed EXCEPT
                     !.index = index,
                     !.transitions = Append(@, GotoTransition(pause_video_time, resumed.now, segs[index].end_tick, target_tick)),
                     !.has_more = TRUE]

\* Variant: the demo is resumed after the final death as well.
handle_death_resuming_at_end(st, segs) ==
    LET pause_video_time == st.now
        paused == sleep(send_key(st, "F7"), PauseSleep)
        index == st.index + 1
    IN  IF index >= Len(segs)
        THEN [send_key(paused, "F6") EXCEPT
                 !.index = index,
                 !.transitions = Append(@, GotoTransition(pause_video_time, pause_video_time, 0, 0)),
                 !.has_more = FALSE]
        ELSE LET target_tick == segs[index + 1].start_tick
                 sought == sleep(send_console_command(paused, target_tick), SeekSleep)
                 resumed == send_key(sleep(send_key(sought, "F5"), LockSleep), "F6")
             IN  [resumed EXCEPT
                     !.index = index,
                     !.transitions = Append(@, GotoTransition(pause_video_time, resumed.now, segs[index].end_tick, target_tick)),
                     !.has_more = TRUE]

\* Variant: from_tick is taken from the segment sought to.
handle_death_from_target(st, segs) ==
    LET pause_video_time == st.now
        paused == sleep(send_key(st, "F7"), PauseSleep)
        index == st.index + 1
    IN  IF index >= Len(segs)
        THEN [paused EXCEPT
                 !.index = index,
                 !.transitions = Append(@, GotoTransition(pause_video_time, pause_video_time, 0, 0)),
                 !.has_more = FALSE]
        ELSE LET target_tick == segs[index + 1].start_tick
                 sought == sleep(send_console_command(paused, target_tick), SeekSleep)
                 resumed == send_key(sleep(send_key(sought, "F5"), LockSleep), "F6")
             IN  [resumed EXCEPT
                     !.index = index,
                     !.transitions = Append(@, GotoTransition(pause_video_time, resumed.now, segs[index + 1].end_tick, target_tick)),
                     !.has_more = TRUE]

\* handle_death on st = [index, transitions, now, commands] of the loop and
\* [log, tick, paused] of the viewer; has_more is its first return value.
handle_death(st, segs) ==
    LET pause_video_time == st.now
        paused == sleep(send_key(st, "F7"), PauseSleep)
        index == st.index + 1
    IN  IF index >= Len(segs)
        THEN [paused EXCEPT
                 !.index = index,
                 !.transitions = Append(@, GotoTransition(pause_video_time, pause_video_time, 0, 0)),
                 !.has_more = FALSE]
        ELSE LET target_tick == segs[index + 1].start_tick
                 adjusted_tick == compute_goto_tick(target_tick, 0)
                 sought == sleep(send_console_command(paused, adjusted_tick), SeekSleep)
                 locked == sleep(send_key(sought, "F5"), LockSleep)
                 resumed == send_key(locked, "F6")
                 from_tick == IF index > 0 THEN segs[index].end_tick ELSE 0
             IN  [resumed EXCEPT
                     !.index = index,
                     !.transitions = Append(@, GotoTransition(pause_video_time, resumed.now, from_tick, target_tick)),
                     !.has_more = TRUE]

\* min_end_tick = state.timeline.alive_segments[-1].end_tick
MinEndTick(segs) == segs[Len(segs)].end_tick

\* Segment k of a session's timeline: ticks 3(k-1) to 3(k-1)+1.
NavSegment(k, reason) ==
    AliveSegment(3 * (k - 1), 3 * (k - 1) + 1, RatInt(3 * (k - 1)), RatInt(3 * (k - 1) + 1), k, reason)

RECURSIVE NavTimelinesOf(_)
NavTimelinesOf(n) ==
    IF n = 0 THEN {<<>>}
    ELSE {Append(segs, NavSegment(n, reason)) :
              segs \in NavTimelinesOf(n - 1), reason \in {"death", "round_end"}}

NavTimelines == UNION {NavTimelinesOf(n) : n \in 1 .. MaxNavSegs}

\* record_demo before the loop: with a window the demo is paused, sent to the
\* first segment's start and resumed once capture runs; without one it plays
\* from where it is.
InitNav ==
    /\ pc = "session"
    /\ AlignIdle
    /\ RecIdle
    /\ ExtIdle
    /\ alive_segments \in NavTimelines
    /\ tickrate = RatInt(1)
    /\ deaths = <<>>
    /\ rounds = <<>>
    /\ total_ticks = 0
    /\ buffer_before_round = RatInt(5)
    /\ buffer_after_round_end = RatInt(2)
    /\ round_candidates = <<>>
    /\ per_round_segments = <<>>
    /\ merge_steps = <<>>
    /\ remerged = <<>>
    /\ nav_pc = "start"
    /\ exit_reason = "none"
    /\ timeout = MaxNavTime
    /\ current_segment_index = 0
    /\ transitions = <<>>
    /\ clock = 0
    /\ last_spec_lock = 0
    /\ window_id = FALSE
    /\ log_position = 0
    /\ death_log_position = 0
    /\ commands = <<>>
    /\ deaths_seen = 0
    /\ demo_final_tick = MinEndTick(alive_segments) + 1
    /\ \/ /\ console_log \in {<<PausedLine(t, TRUE)>> : t \in {0, MinEndTick(alive_segments)}}
          /\ demo_tick = alive_segments[1].start_tick
       \/ /\ console_log = <<>>
          /\ demo_tick = 0
    /\ demo_paused = FALSE
    /\ cs2_running = TRUE
    /\ ffmpeg_running = TRUE

\* recording_loop_tick_nav up to the while loop.
NavStart ==
    /\ nav_pc = "start"
    /\ nav_pc' = "loop"
    /\ window_id' \in BOOLEAN
    /\ UNCHANGED <<exit_reason, timeout, current_segment_index, transitions, clock, last_spec_lock, log_position, death_log_position, commands, deaths_seen>>
    /\ UNCHANGED <<pc, segVars, mergeVars, alignVars, viewerVars, recVars, extVars>>

Return(reason) ==
    /\ nav_pc' = "returned"
    /\ exit_reason' = reason

\* The end of an iteration: spec_lock every 3 seconds, then sleep(0.5).
SpecLockAndSleep(st, elapsed) ==
    /\ IF elapsed - last_spec_lock >= SpecLockPeriod
       THEN /\ window_id' \in (IF window_id THEN {TRUE} ELSE BOOLEAN)
            /\ commands' = (IF window_id' THEN send_key(st, "F5").commands ELSE st.commands)
            /\ last_spec_lock' = elapsed
       ELSE /\ commands' = st.commands
            /\ UNCHANGED <<window_id, last_spec_lock>>
    /\ clock' = st.now + LoopSleep

\* One pass through the while loop.
LoopIteration ==
    /\ nav_pc = "loop"
    /\ LET elapsed == clock
           st == [index |-> current_segment_index, transitions |-> transitions, now |-> clock,
                  commands |-> commands, log |-> console_log, tick |-> demo_tick,
                  paused |-> demo_paused, has_more |-> TRUE]
       IN  IF elapsed > timeout \/ ~cs2_running \/ ~ffmpeg_running
           THEN /\ Return(IF elapsed > timeout THEN "timeout"
                          ELSE IF ~cs2_running THEN "cs2_exited" ELSE "ffmpeg_stopped")
                /\ UNCHANGED <<current_segment_index, transitions, clock, last_spec_lock, window_id, log_position, death_log_position, commands, deaths_seen>>
                /\ UNCHANGED <<console_log, demo_tick, demo_paused>>
           ELSE /\ log_position' = Len(console_log)
                /\ IF check_demo_ended_tick_aware(console_log, log_position, MinEndTick(alive_segments))
                   THEN /\ Return("demo_ended")
                        /\ UNCHANGED <<current_segment_index, transitions, clock, last_spec_lock, window_id, death_log_position, commands, deaths_seen>>
                        /\ UNCHANGED <<console_log, demo_tick, demo_paused>>
                   ELSE /\ death_log_position' = (IF window_id THEN Len(console_log) ELSE death_log_position)
                        /\ IF window_id /\ check_death_in_console(console_log, death_log_position)
                           THEN LET after == handle_death(st, alive_segments)
                                IN  /\ deaths_seen' = deaths_seen + 1
                                    /\ current_segment_index' = after.index
                                    /\ transitions' = after.transitions
                                    /\ console_log' = after.log
                                    /\ demo_tick' = after.tick
                                    /\ demo_paused' = after.paused
                                    /\ IF after.has_more
                                       THEN /\ SpecLockAndSleep(after, elapsed)
                                            /\ UNCHANGED <<nav_pc, exit_reason>>
                                       ELSE /\ Return("segments_complete")
                                            /\ commands' = after.commands
                                            /\ clock' = after.now
                                            /\ UNCHANGED <<window_id, last_spec_lock>>
                           ELSE /\ SpecLockAndSleep(st, elapsed)
                                /\ UNCHANGED <<nav_pc, exit_reason, current_segment_index, transitions, deaths_seen>>
                                /\ UNCHANGED <<console_log, demo_tick, demo_paused>>
    /\ UNCHANGED <<timeout, demo_final_tick, cs2_running, ffmpeg_running>>
    /\ UNCHANGED <<pc, segVars, mergeVars, alignVars, recVars, extVars>>

\* The tracked player dies where a segment ends with reason "death".
DeathAt(tick) ==
    \E k \in 1 .. Len(alive_segments) :
        alive_segments[k].reason_ended = "death" /\ alive_segments[k].end_tick = tick

\* The viewer plays one tick: it logs a death it passes, and pauses and logs
\* the tick when the demo runs out.
\* One of the two recording loops is running.
SessionRunning == nav_pc = "loop" \/ rec_pc = "loop"

ViewerPlays ==
    /\ SessionRunning
    /\ cs2_running
    /\ ~demo_paused
    /\ demo_tick < demo_final_tick
    /\ demo_tick' = demo_tick + 1
    /\ demo_paused' = (demo_tick' = demo_final_tick)
    /\ console_log' =
           LET died == IF DeathAt(demo_tick') THEN Append(console_log, ShutdownLine(demo_tick')) ELSE console_log
           IN  IF demo_tick' = demo_final_tick THEN Append(died, PausedLine(demo_tick', FALSE)) ELSE died
    /\ UNCHANGED <<demo_final_tick, cs2_running, ffmpeg_running>>
    /\ UNCHANGED <<pc, segVars, mergeVars, alignVars, loopVars, recVars, extVars>>

\* The viewer process goes away.
ViewerExits ==
    /\ SessionRunning
    /\ cs2_running
    /\ cs2_running' = FALSE
    /\ UNCHANGED <<console_log, demo_tick, demo_paused, demo_final_tick, ffmpeg_running>>
    /\ UNCHANGED <<pc, segVars, mergeVars, alignVars, loopVars, recVars, extVars>>

\* The capture process stops on its own.
CaptureStops ==
    /\ SessionRunning
    /\ ffmpeg_running
    /\ ffmpeg_running' = FALSE
    /\ UNCHANGED <<console_log, demo_tick, demo_paused, demo_final_tick, cs2_running>>
    /\ UNCHANGED <<pc, segVars, mergeVars, alignVars, loopVars, recVars, extVars>>

NextNav == NavStart \/ LoopIteration \/ ViewerPlays \/ ViewerExits \/ CaptureStops

SpecNav == InitNav /\ [][NextNav]_vars

\* A death marker that the viewer wrote before the loop started (during demo
\* load, the pre-recording wait or the initial seek); the tick it was written
\* at plays no part.
EarlierShutdownLine == ShutdownLine(None)

\* What console.log may hold of death markers when the loop starts.
EarlierLogs == {<<>>, <<EarlierShutdownLine>>}

\* As InitNav, with console.log as the viewer has written it since launch:
\* it is never truncated between launch and the loop.
InitNavWithLog ==
    /\ pc = "session"
    /\ AlignIdle
    /\ RecIdle
    /\ ExtIdle
    /\ alive_segments \in NavTimelines
    /\ tickrate = RatInt(1)
    /\ deaths = <<>>
    /\ rounds = <<>>
    /\ total_ticks = 0
    /\ buffer_before_round = RatInt(5)
    /\ buffer_after_round_end = RatInt(2)
    /\ round_candidates = <<>>
    /\ per_round_segments = <<>>
    /\ merge_steps = <<>>
    /\ remerged = <<>>
    /\ nav_pc = "start"
    /\ exit_reason = "none"
    /\ timeout = MaxNavTime
    /\ current_segment_index = 0
    /\ transitions = <<>>
    /\ clock = 0
    /\ last_spec_lock = 0
    /\ window_id = FALSE
    /\ log_position = 0
    /\ death_log_position = 0
    /\ commands = <<>>
    /\ deaths_seen = 0
    /\ demo_final_tick = MinEndTick(alive_segments) + 1
    /\ \E earlier \in EarlierLogs :
           \/ /\ console_log \in {earlier \o <<PausedLine(t, TRUE)>> : t \in {0, MinEndTick(alive_segments)}}
              /\ demo_tick = alive_segments[1].start_tick
           \/ /\ console_log = earlier
              /\ demo_tick = 0
    /\ demo_paused = FALSE
    /\ cs2_running = TRUE
    /\ ffmpeg_running = TRUE

SpecNavWithLog == InitNavWithLog /\ [][NextNav]_vars

(***************************************************************************)
(* The trim plan: postprocess_video as a whole, with the transitions of a  *)
(* tick-navigation recording (cli.py) and trim_goto_transitions (trim.py). *)
(* Transition times are seconds of video time, as rationals.               *)
(***************************************************************************)
\* sorted(transitions, key=lambda t: t.pause_video_time), a stable sort.
RECURSIVE InsertByPauseTime(_, _)
InsertByPauseTime(sorted, t) ==
    IF sorted = <<>> THEN <<t>>
    ELSE IF RatLess(t.pause_video_time, sorted[Len(sorted)].pause_video_time)
         THEN Append(InsertByPauseTime(SubSeq(sorted, 1, Len(sorted) - 1), t), sorted[Len(sorted)])
         ELSE Append(sorted, t)

RECURSIVE SortByPauseTime(_)
SortByPauseTime(trs) ==
    IF trs = <<>> THEN <<>>
    ELSE InsertByPauseTime(SortByPauseTime(SubSeq(trs, 1, Len(trs) - 1)), trs[Len(trs)])

\* Variant: the position is moved to the pause, not past the unpause.
RECURSIVE KeepLoopSkippingToPause(_, _)
KeepLoopSkippingToPause(sorted, n) ==
    IF n = 0 THEN [pos |-> RatInt(0), keep |-> <<>>]
    ELSE LET before == KeepLoopSkippingToPause(sorted, n - 1)
             t == sorted[n]
         IN  [pos |-> RatMax(before.pos, t.pause_video_time),
              keep |-> IF RatLess(RatAdd(before.pos, MinKeepSeconds), t.pause_video_time)
                       THEN Append(before.keep, <<before.pos, t.pause_video_time>>)
                       ELSE before.keep]

\* The loop over the sorted transitions: [pos, keep] after the first n.
RECURSIVE KeepLoop(_, _)
KeepLoop(sorted, n) ==
    IF n = 0 THEN [pos |-> RatInt(0), keep |-> <<>>]
    ELSE LET before == KeepLoop(sorted, n - 1)
             t == sorted[n]
         IN  [pos |-> RatMax(before.pos, t.unpause_video_time),
              keep |-> IF RatLess(RatAdd(before.pos, MinKeepSeconds), t.pause_video_time)
                       THEN Append(before.keep, <<before.pos, t.pause_video_time>>)
                       ELSE before.keep]

\* keep_segments of trim_goto_transitions.
KeepSegments(trs, v_duration) ==
    LET done == KeepLoop(SortByPauseTime(trs), Len(trs))
    IN  IF RatLess(done.pos, RatSub(v_duration, MinKeepSeconds))
        THEN Append(done.keep, <<done.pos, v_duration>>)
        ELSE done.keep

\* Variant: transitions are used only when there is no timeline to align.
PlanSourceTimelineFirst(trs, segs) ==
    IF segs # <<>> THEN "alive_segments"
    ELSE IF trs # <<>> THEN "transitions"
    ELSE "none"

\* Variant: the aligner is run whether or not there are alive segments.
PlanSourceAlwaysAligned(trs, segs) ==
    IF trs # <<>> THEN "transitions" ELSE "alive_segments"

\* What postprocess_video builds the keep intervals from: "if transitions:",
\* then "if timeline is not None and timeline.alive_segments:", else nothing.
PlanSource(trs, segs) ==
    IF trs # <<>> THEN "transitions"
    ELSE IF segs # <<>> THEN "alive_segments"
    ELSE "none"

\* Pauses at 0.5 s, 1 s and 4 s of video, resumed at once or 2 s later.
PlanTransitions ==
    {GotoTransition(HalfSecs(pause), HalfSecs(pause + gap), 0, 0) : pause \in {1, 2, 8}, gap \in {0, 4}}

RECURSIVE PlanTransitionListsOf(_)
PlanTransitionListsOf(n) ==
    IF n = 0 THEN {<<>>}
    ELSE {Append(trs, t) : trs \in PlanTransitionListsOf(n - 1), t \in PlanTransitions}

PlanTransitionLists == UNION {PlanTransitionListsOf(n) : n \in 0 .. MaxTransitions}

\* How a run of extract_and_concat_segments can end: True with the output
\* written, False with no output file, False with an output file left by the
\* ffmpeg run that failed or timed out.
ExecutorResults == {"ok", "failed", "failed_partial"}

\* video_path.rename(raw_path)
MoveToRaw(files) == [video |-> "missing", raw |-> files.video]

\* extract_and_concat_segments writing to video_path.
extract_and_concat_segments(files, result) ==
    [files EXCEPT !.video = IF result = "ok" THEN "trimmed"
                            ELSE IF result = "failed_partial" THEN "partial"
                            ELSE @]

\* After the executor: "if success and video_path.exists()", else the raw
\* file is renamed back if nothing is at video_path.
RestoreRaw(files, succeeded) ==
    IF succeeded /\ files.video # "missing" THEN files
    ELSE IF files.video = "missing" /\ files.raw # "missing"
         THEN [video |-> files.raw, raw |-> "missing"]
         ELSE files

\* The executor's part of postprocess_video for a non-empty keep list.
RunExecutor(files, result) ==
    RestoreRaw(extract_and_concat_segments(MoveToRaw(files), result), result = "ok")

\* No round at all, or one round from tick 0 with freeze end 1 and end 3.
PlanRoundShapeLists == {<<>>, <<<<0, 1, 3>>>>}

\* _run_single_pov hands postprocess_video the recording's timeline and
\* transitions; cmd_trim passes a startup override and no transitions.
InitPlan ==
    /\ pc = "plan_input"
    /\ RecIdle
    /\ CommsIdle
    /\ SettingsIdle
    /\ StopIdle
    /\ video_file = "original"
    /\ raw_file = "missing"
    /\ executor_result = "not_run"
    /\ tickrate = AlignTickRate
    /\ buffer_before_round = RatInt(5)
    /\ buffer_after_round_end = RatInt(2)
    /\ \E shs \in PlanRoundShapeLists : rounds = MkRounds(shs, tickrate)
    /\ deaths = <<>>
    /\ total_ticks \in {0, MaxTick}
    /\ round_candidates = <<>>
    /\ per_round_segments = <<>>
    /\ alive_segments =
           compute_alive_segments(deaths, rounds, tickrate, total_ticks, buffer_before_round, buffer_after_round_end)
    /\ merge_steps = <<>>
    /\ remerged = <<>>
    /\ total_duration = HeaderDuration(total_ticks, tickrate)
    /\ demo_end_tick \in EndMarkerTicks
    /\ video_duration \in VideoDurations
    /\ startup_time_override \in StartupOverrides
    /\ demo_duration = RatInt(0)
    /\ startup_time = RatInt(0)
    /\ video_segments = <<>>
    /\ post_outcome = "none"
    /\ transitions \in PlanTransitionLists
    /\ nav_pc = "idle"
    /\ exit_reason = "none"
    /\ timeout = 0
    /\ current_segment_index = 0
    /\ clock = 0
    /\ last_spec_lock = 0
    /\ window_id = FALSE
    /\ console_log = <<>>
    /\ log_position = 0
    /\ death_log_position = 0
    /\ commands = <<>>
    /\ deaths_seen = 0
    /\ demo_tick = 0
    /\ demo_paused = FALSE
    /\ demo_final_tick = 0
    /\ cs2_running = FALSE
    /\ ffmpeg_running = FALSE

\* The files after the keep list is decided: the executor runs for a
\* non-empty list; an empty list from transitions moves the video to _raw and
\* back, an empty list otherwise touches nothing.
Execute(keep, from_transitions) ==
    LET files == [video |-> video_file, raw |-> raw_file]
    IN  IF keep # <<>>
        THEN \E result \in ExecutorResults :
                 /\ executor_result' = result
                 /\ video_file' = RunExecutor(files, result).video
                 /\ raw_file' = RunExecutor(files, result).raw
        ELSE /\ executor_result' = "not_run"
             /\ video_file' = (IF from_transitions THEN RestoreRaw(MoveToRaw(files), FALSE).video ELSE video_file)
             /\ raw_file' = (IF from_transitions THEN RestoreRaw(MoveToRaw(files), FALSE).raw ELSE raw_file)

\* postprocess_video from the transitions test to its return; console.log is
\* read by nothing but the end-marker lookup of the aligner.
PostprocessVideoPlan ==
    /\ pc = "plan_input"
    /\ pc' = "plan_done"
    /\ LET source == PlanSource(transitions, alive_segments)
       IN  IF source = "transitions"
           THEN LET keep == KeepSegments(transitions, video_duration)
                IN  /\ video_segments' = keep
                    /\ post_outcome' = IF keep # <<>> THEN "transition_trim" ELSE "restore_raw"
                    /\ UNCHANGED <<demo_duration, startup_time>>
           ELSE IF source = "none"
           THEN /\ post_outcome' = "keep_original"
                /\ UNCHANGED <<demo_duration, startup_time, video_segments>>
           ELSE LET d == ResolveDemoDuration(demo_end_tick, tickrate, total_duration, rounds, alive_segments)
                    st == StartupTime(video_duration, d, startup_time_override)
                    vs == VideoSegments(alive_segments, Len(alive_segments), st, video_duration)
                IN  /\ demo_duration' = d
                    /\ IF d = RatInt(0)
                       THEN /\ post_outcome' = "no_demo_duration"
                            /\ UNCHANGED <<startup_time, video_segments>>
                       ELSE /\ startup_time' = st
                            /\ video_segments' = vs
                            /\ post_outcome' = IF vs # <<>> THEN "trim" ELSE "keep_original"
    /\ Execute(video_segments', PlanSource(transitions, alive_segments) = "transitions")
    /\ UNCHANGED <<segVars, mergeVars, navVars, recVars, commsVars, settingsVars, stopVars>>
    /\ UNCHANGED <<total_duration, demo_end_tick, video_duration, startup_time_override>>

NextPlan == PostprocessVideoPlan

SpecPlan == InitPlan /\ [][NextPlan]_vars

(***************************************************************************)
(* A recording session: record_demo from the start of capture, with the    *)
(* standard recording_loop, its finally block, and _run_single_pov's use   *)
(* of the result (cli.py).                                                 *)
(***************************************************************************)
\* What a cleanup step did, and whether capture was running when it began.
TeardownStep(step, capture_running) == [step |-> step, capture_running |-> capture_running]

\* FFmpegCapture.stop: returns once the process has ended.
stop(st) ==
    [st EXCEPT !.ffmpeg = FALSE, !.trace = Append(@, TeardownStep("ffmpeg_stop", st.ffmpeg))]

\* CS2Process.terminate
terminate(st) ==
    [st EXCEPT !.cs2 = FALSE, !.trace = Append(@, TeardownStep("cs2_terminate", st.ffmpeg))]

\* shutil.copy2(console_log_path, saved_log_path)
copy2(st) ==
    [st EXCEPT !.trace = Append(@, TeardownStep("log_saved", st.ffmpeg))]

\* Variant: the viewer is terminated before capture is stopped.
CleanupViewerFirst(st, log) ==
    LET terminated == IF st.cs2 THEN terminate(st) ELSE st
        stopped == stop(terminated)
    IN  IF log THEN copy2(stopped) ELSE stopped

\* The finally block of record_demo on st = [ffmpeg, cs2, trace].
Cleanup(st, log) ==
    LET stopped == stop(st)
        terminated == IF stopped.cs2 THEN terminate(stopped) ELSE stopped
    IN  IF log THEN copy2(terminated) ELSE terminated

\* success = exit_reason in ("demo_ended", "cs2_exited", "segments_complete")
Success(reason) == reason \in {"demo_ended", "cs2_exited", "segments_complete"}

\* check_demo_ended: any "paused on tick" line after the position.
check_demo_ended(log, last_position) ==
    \E k \in Unread(log, last_position) : log[k].kind = "paused"

RecordTimelines == {<<>>} \cup NavTimelinesOf(1)

\* record_demo once ffmpeg.start() has returned.
InitRecord ==
    /\ pc = "record"
    /\ AlignIdle
    /\ ExtIdle
    /\ alive_segments \in RecordTimelines
    /\ tickrate = RatInt(1)
    /\ deaths = <<>>
    /\ rounds = <<>>
    /\ total_ticks = 0
    /\ buffer_before_round = RatInt(5)
    /\ buffer_after_round_end = RatInt(2)
    /\ round_candidates = <<>>
    /\ per_round_segments = <<>>
    /\ merge_steps = <<>>
    /\ remerged = <<>>
    /\ nav_pc = "idle"
    /\ exit_reason = "unknown"
    /\ timeout = MaxNavTime
    /\ current_segment_index = 0
    /\ transitions = <<>>
    /\ clock = 0
    /\ last_spec_lock = 0
    /\ window_id = FALSE
    /\ log_position = 0
    /\ death_log_position = 0
    /\ commands = <<>>
    /\ deaths_seen = 0
    /\ console_log = <<>>
    /\ demo_tick = 0
    /\ demo_paused = FALSE
    /\ demo_final_tick = 2
    /\ cs2_running = TRUE
    /\ ffmpeg_running = TRUE
    /\ rec_pc = "capturing"
    /\ \E tick_nav \in BOOLEAN : use_tick_nav = (tick_nav /\ alive_segments # <<>>)
    /\ no_trim \in BOOLEAN
    /\ log_exists \in BOOLEAN
    /\ teardown = <<>>
    /\ raised = FALSE
    /\ success = FALSE
    /\ trim_started = FALSE

\* From capture start to the loop: with tick navigation NavigationState is
\* constructed without its required player_slot, which raises TypeError.
EnterLoop ==
    /\ rec_pc = "capturing"
    /\ IF use_tick_nav
       THEN /\ rec_pc' = "finally"
            /\ raised' = TRUE
       ELSE /\ rec_pc' = "loop"
            /\ UNCHANGED raised
    /\ UNCHANGED <<use_tick_nav, no_trim, log_exists, teardown, success, trim_started>>
    /\ UNCHANGED extVars
    /\ UNCHANGED <<pc, segVars, mergeVars, alignVars, navVars>>

RecordReturn(reason) ==
    /\ rec_pc' = "finally"
    /\ exit_reason' = reason

\* One pass through the while loop of recording_loop.
RecordingLoopIteration ==
    /\ rec_pc = "loop"
    /\ LET elapsed == clock
           st == [commands |-> commands, log |-> console_log, tick |-> demo_tick,
                  paused |-> demo_paused, now |-> clock]
       IN  IF elapsed > timeout \/ ~cs2_running \/ ~ffmpeg_running
           THEN /\ RecordReturn(IF elapsed > timeout THEN "timeout"
                                ELSE IF ~cs2_running THEN "cs2_exited" ELSE "ffmpeg_stopped")
                /\ UNCHANGED <<clock, last_spec_lock, window_id, log_position, commands>>
           ELSE /\ log_position' = Len(console_log)
                /\ IF check_demo_ended(console_log, log_position)
                   THEN /\ RecordReturn("demo_ended")
                        /\ UNCHANGED <<clock, last_spec_lock, window_id, commands>>
                   ELSE /\ SpecLockAndSleep(st, elapsed)
                        /\ UNCHANGED <<rec_pc, exit_reason>>
    /\ UNCHANGED <<nav_pc, timeout, current_segment_index, transitions, death_log_position, deaths_seen>>
    /\ UNCHANGED <<use_tick_nav, no_trim, log_exists, teardown, raised, success, trim_started>>
    /\ UNCHANGED extVars
    /\ UNCHANGED <<pc, segVars, mergeVars, alignVars, viewerVars>>

\* except KeyboardInterrupt
UserInterrupts ==
    /\ rec_pc = "loop"
    /\ RecordReturn("interrupted")
    /\ UNCHANGED <<nav_pc, timeout, current_segment_index, transitions, clock, last_spec_lock, window_id, log_position, death_log_position, commands, deaths_seen>>
    /\ UNCHANGED <<use_tick_nav, no_trim, log_exists, teardown, raised, success, trim_started>>
    /\ UNCHANGED extVars
    /\ UNCHANGED <<pc, segVars, mergeVars, alignVars, viewerVars>>

\* The finally block, then the RecordingResult or the exception.
RecordDemoCleanup ==
    /\ rec_pc = "finally"
    /\ LET done == Cleanup([ffmpeg |-> ffmpeg_running, cs2 |-> cs2_running, trace |-> <<>>],
                           log_exists \/ console_log # <<>>)
       IN  /\ teardown' = done.trace
           /\ ffmpeg_running' = done.ffmpeg
           /\ cs2_running' = done.cs2
    /\ IF raised
       THEN /\ rec_pc' = "raised"
            /\ UNCHANGED success
       ELSE /\ rec_pc' = "returned"
            /\ success' = Success(exit_reason)
    /\ UNCHANGED <<console_log, demo_tick, demo_paused, demo_final_tick>>
    /\ UNCHANGED <<use_tick_nav, no_trim, log_exists, raised, trim_started>>
    /\ UNCHANGED extVars
    /\ UNCHANGED <<pc, segVars, mergeVars, alignVars, loopVars>>

\* _run_single_pov after record_demo returned.
RunSinglePov ==
    /\ rec_pc = "returned"
    /\ rec_pc' = "pov_done"
    /\ trim_started' = (success /\ ~no_trim)
    /\ UNCHANGED <<use_tick_nav, no_trim, log_exists, teardown, raised, success>>
    /\ UNCHANGED extVars
    /\ UNCHANGED <<pc, segVars, mergeVars, alignVars, navVars>>

NextRecord ==
    \/ EnterLoop
    \/ RecordingLoopIteration
    \/ UserInterrupts
    \/ RecordDemoCleanup
    \/ RunSinglePov
    \/ ViewerPlays
    \/ ViewerExits
    \/ CaptureStops

SpecRecord == InitRecord /\ [][NextRecord]_vars

(***************************************************************************)
(* Comms audio: compute_comms_segments (comms.py).                         *)
(***************************************************************************)
\* Comms time = demo_time - round1_freeze_end_time + r1_sync_time.
CommsTime(demo_time, round1_time, sync_time) ==
    RatAdd(RatSub(demo_time, round1_time), sync_time)

\* Variant: a segment that starts before comms time 0 is dropped whole.
RECURSIVE compute_comms_segments_dropping_early(_, _, _)
compute_comms_segments_dropping_early(segs, round1_time, sync_time) ==
    IF segs = <<>> THEN <<>>
    ELSE LET before == compute_comms_segments_dropping_early(SubSeq(segs, 1, Len(segs) - 1), round1_time, sync_time)
             comms_start == CommsTime(segs[Len(segs)].start_time, round1_time, sync_time)
             comms_end == CommsTime(segs[Len(segs)].end_time, round1_time, sync_time)
         IN  IF RatLess(comms_start, RatInt(0)) THEN before
             ELSE Append(before, <<comms_start, comms_end>>)

\* Variant: a segment that ends exactly at comms time 0 is emitted.
RECURSIVE compute_comms_segments_keeping_zero_end(_, _, _)
compute_comms_segments_keeping_zero_end(segs, round1_time, sync_time) ==
    IF segs = <<>> THEN <<>>
    ELSE LET before == compute_comms_segments_keeping_zero_end(SubSeq(segs, 1, Len(segs) - 1), round1_time, sync_time)
             comms_start == CommsTime(segs[Len(segs)].start_time, round1_time, sync_time)
             comms_end == CommsTime(segs[Len(segs)].end_time, round1_time, sync_time)
         IN  IF RatLess(comms_end, RatInt(0)) THEN before
             ELSE Append(before, <<RatMax(RatInt(0), comms_start), comms_end>>)

RECURSIVE compute_comms_segments(_, _, _)
compute_comms_segments(segs, round1_time, sync_time) ==
    IF segs = <<>> THEN <<>>
    ELSE LET before == compute_comms_segments(SubSeq(segs, 1, Len(segs) - 1), round1_time, sync_time)
             comms_start == CommsTime(segs[Len(segs)].start_time, round1_time, sync_time)
             comms_end == CommsTime(segs[Len(segs)].end_time, round1_time, sync_time)
         IN  IF RatLeq(comms_end, RatInt(0)) THEN before
             ELSE Append(before, <<RatMax(RatInt(0), comms_start), comms_end>>)

RECURSIVE CommsSegShapeLists(_)
CommsSegShapeLists(n) ==
    IF n = 0 THEN {<<>>}
    ELSE {Append(shs, sh) : shs \in CommsSegShapeLists(n - 1), sh \in SegShapes}

\* Alive segments at one tick per second, in any order.
CommsInputs ==
    {MkSegments(shs, <<"death", "round_end">>, RatInt(1)) :
         shs \in UNION {CommsSegShapeLists(n) : n \in 0 .. MaxCommsSegs}}

CommsRound1Times == {RatInt(0), HalfSecs(3), RatInt(3)}

CommsSyncTimes == {RatInt(0), HalfSecs(1), RatInt(2)}

InitComms ==
    /\ pc = "comms_input"
    /\ AlignIdle
    /\ NavIdle
    /\ RecIdle
    /\ ExecIdle
    /\ SettingsIdle
    /\ StopIdle
    /\ alive_segments \in CommsInputs
    /\ tickrate = RatInt(1)
    /\ deaths = <<>>
    /\ rounds = <<>>
    /\ total_ticks = 0
    /\ buffer_before_round = RatInt(5)
    /\ buffer_after_round_end = RatInt(2)
    /\ round_candidates = <<>>
    /\ per_round_segments = <<>>
    /\ merge_steps = <<>>
    /\ remerged = <<>>
    /\ round1_freeze_end_time \in CommsRound1Times
    /\ r1_sync_time \in CommsSyncTimes
    /\ comms_segments = <<>>

ComputeCommsSegments ==
    /\ pc = "comms_input"
    /\ pc' = "comms_done"
    /\ comms_segments' = compute_comms_segments(alive_segments, round1_freeze_end_time, r1_sync_time)
    /\ UNCHANGED <<round1_freeze_end_time, r1_sync_time, execVars, settingsVars, stopVars>>
    /\ UNCHANGED <<segVars, mergeVars, alignVars, navVars, recVars>>

NextComms == ComputeCommsSegments

SpecComms == InitComms /\ [][NextComms]_vars

(***************************************************************************)
(* Settings: resolve_job and merge_args_with_config (settings.py) as       *)
(* _run_batch applies them (cli.py).  Values are written as strings:       *)
(* "None" is Python's None, "absent" a key that a dict does not have.      *)
(***************************************************************************)
\* Three of the settings of HARDCODED_DEFAULTS: an int, a bool and one that
\* may be None.
SettingKeys == {"framerate", "no_hud", "audio_device"}

HARDCODED_DEFAULTS == [key \in SettingKeys |->
    IF key = "framerate" THEN "60" ELSE IF key = "no_hud" THEN "False" ELSE "None"]

\* Values that _validate_setting_types lets a config give to a setting.
ConfigValues(key) ==
    IF key = "framerate" THEN {"30", "60"}
    ELSE IF key = "no_hud" THEN {"True", "False"}
    ELSE {"headset", "None"}

\* Values that a command-line flag can give.
CliValues(key) == ConfigValues(key) \ {"None"}

\* dict.get(key)
Get(dict, key) == IF dict[key] = "absent" THEN "None" ELSE dict[key]

\* Variant: the config defaults are laid over the job's overrides.
resolve_job_defaults_last(overrides, defaults) ==
    [key \in SettingKeys |-> IF defaults[key] # "absent" THEN defaults[key] ELSE overrides[key]]

\* merged = dict(defaults); merged.update(job.overrides)
resolve_job(overrides, defaults) ==
    [key \in SettingKeys |-> IF overrides[key] # "absent" THEN overrides[key] ELSE defaults[key]]

\* Variant: a value from the config replaces the command line's.
merge_args_config_first(args, job_dict) ==
    [key \in SettingKeys |->
        IF Get(job_dict, key) # "None" THEN Get(job_dict, key)
        ELSE IF args[key] # "None" THEN args[key]
        ELSE HARDCODED_DEFAULTS[key]]

merge_args_with_config(args, job_dict) ==
    [key \in SettingKeys |->
        IF args[key] # "None" THEN args[key]
        ELSE IF Get(job_dict, key) # "None" THEN Get(job_dict, key)
        ELSE HARDCODED_DEFAULTS[key]]

InitSettings ==
    /\ pc = "settings_input"
    /\ AlignIdle
    /\ NavIdle
    /\ RecIdle
    /\ ExecIdle
    /\ CommsIdle
    /\ StopIdle
    /\ SegIdle
    /\ cli_args \in [SettingKeys -> UNION {CliValues(key) : key \in SettingKeys} \cup {"None"}]
    /\ \A key \in SettingKeys : cli_args[key] \in CliValues(key) \cup {"None"}
    /\ config_defaults \in [SettingKeys -> UNION {ConfigValues(key) : key \in SettingKeys} \cup {"absent"}]
    /\ \A key \in SettingKeys : config_defaults[key] \in ConfigValues(key) \cup {"absent"}
    /\ batch_mode \in BOOLEAN
    /\ job_overrides \in [SettingKeys -> UNION {ConfigValues(key) : key \in SettingKeys} \cup {"absent"}]
    /\ \A key \in SettingKeys : job_overrides[key] \in
           (IF batch_mode THEN ConfigValues(key) \cup {"absent"} ELSE {"absent"})
    /\ merged_args = <<>>

\* _run_batch for one job: in batch mode the job's overrides are merged onto
\* the defaults, in single mode the defaults alone are the job; then the
\* command line is laid over it.
RunBatchJob ==
    /\ pc = "settings_input"
    /\ pc' = "settings_done"
    /\ LET job == IF batch_mode THEN resolve_job(job_overrides, config_defaults) ELSE config_defaults
       IN  merged_args' = merge_args_with_config(cli_args, job)
    /\ UNCHANGED <<cli_args, config_defaults, job_overrides, batch_mode, execVars, commsVars, stopVars>>
    /\ UNCHANGED <<segVars, mergeVars, alignVars, navVars, recVars>>

NextSettings == RunBatchJob

SpecSettings == InitSettings /\ [][NextSettings]_vars

(***************************************************************************)
(* FFmpegCapture.stop (capture.py), split at its blocking waits; the       *)
(* ffmpeg process exits on its own schedule.                               *)
(***************************************************************************)
\* wait(timeout=5) after SIGINT and after SIGTERM; time passes in steps of
\* this length.
EscalationWait == 5

\* timeout=15 from record_demo, and the default.
StopTimeouts == {15, 30}

\* self.process is not None and self.process.poll() is None
is_running == capture_handle /\ capture_alive

\* Variant: SIGTERM is skipped.
EscalationSkippingTerminate(stage, t) ==
    IF stage = "wait_quit" THEN [waited |-> t, signal |-> "SIGINT", next |-> "wait_sigint"]
    ELSE [waited |-> EscalationWait, signal |-> "SIGKILL", next |-> "wait_sigkill"]

\* What the except branch of each bounded wait does: the wait that expired,
\* the signal sent and the wait entered next.
Escalation(stage, t) ==
    IF stage = "wait_quit" THEN [waited |-> t, signal |-> "SIGINT", next |-> "wait_sigint"]
    ELSE IF stage = "wait_sigint" THEN [waited |-> EscalationWait, signal |-> "SIGTERM", next |-> "wait_sigterm"]
    ELSE [waited |-> EscalationWait, signal |-> "SIGKILL", next |-> "wait_sigkill"]

\* Variant: graceful stays False once the first wait has expired.
GracefulOnExitQuitOnly(stage, g) == g

\* graceful when a wait returns: the wait after SIGINT sets it back to True.
GracefulOnExit(stage, g) == IF stage = "wait_sigint" THEN TRUE ELSE g

\* What a call of stop returned, and whether it found self.process set.
StopResult(value, process) == [value |-> value, process |-> process]

\* A new FFmpegCapture: self.process = None.
InitStop ==
    /\ pc = "stop"
    /\ AlignIdle
    /\ NavIdle
    /\ RecIdle
    /\ ExecIdle
    /\ CommsIdle
    /\ SettingsIdle
    /\ SegIdle
    /\ capture_handle = FALSE
    /\ capture_alive = FALSE
    /\ stop_pc = "idle"
    /\ stop_timeout \in StopTimeouts
    /\ stop_sent = <<>>
    /\ stop_elapsed = 0
    /\ stop_waits = <<>>
    /\ graceful = TRUE
    /\ stop_results = <<>>

StopUnchanged == UNCHANGED <<pc, segVars, mergeVars, alignVars, navVars, recVars, execVars, commsVars, settingsVars>>

\* start(): Popen; if ffmpeg has exited within the first 0.3 s CaptureError
\* is raised, with self.process left set.
StartCapture ==
    /\ stop_pc \in {"idle", "returned"}
    /\ ~capture_handle
    /\ Len(stop_results) < MaxStopCalls
    /\ capture_handle' = TRUE
    /\ capture_alive' \in BOOLEAN
    /\ stop_pc' = "idle"
    /\ UNCHANGED <<stop_timeout, stop_sent, stop_elapsed, stop_waits, graceful, stop_results>>
    /\ StopUnchanged

\* stop() from its entry to the first wait: return True at once if there is
\* no process, else write the quit command (a broken pipe is ignored).
StopCall ==
    /\ stop_pc \in {"idle", "returned"}
    /\ Len(stop_results) < MaxStopCalls
    /\ stop_waits' = <<>>
    /\ stop_elapsed' = 0
    /\ IF ~capture_handle
       THEN /\ stop_pc' = "returned"
            /\ stop_sent' = <<>>
            /\ stop_results' = Append(stop_results, StopResult(TRUE, FALSE))
            /\ UNCHANGED graceful
       ELSE /\ stop_pc' = "wait_quit"
            /\ graceful' = TRUE
            /\ stop_sent' = IF capture_alive THEN <<"q">> ELSE <<>>
            /\ UNCHANGED stop_results
    /\ UNCHANGED <<capture_handle, capture_alive, stop_timeout>>
    /\ StopUnchanged

\* A wait returns because the process has exited; stop closes the stderr
\* file, forgets the process and returns graceful.
WaitReturns ==
    /\ stop_pc \in {"wait_quit", "wait_sigint", "wait_sigterm", "wait_sigkill"}
    /\ ~capture_alive
    /\ graceful' = GracefulOnExit(stop_pc, graceful)
    /\ capture_handle' = FALSE
    /\ stop_results' = Append(stop_results, StopResult(graceful', TRUE))
    /\ stop_pc' = "returned"
    /\ UNCHANGED <<capture_alive, stop_timeout, stop_sent, stop_elapsed, stop_waits>>
    /\ StopUnchanged

\* Time passes in a bounded wait while the process keeps running.
WaitContinues ==
    /\ stop_pc \in {"wait_quit", "wait_sigint", "wait_sigterm"}
    /\ capture_alive
    /\ stop_elapsed < Escalation(stop_pc, stop_timeout).waited
    /\ stop_elapsed' = stop_elapsed + EscalationWait
    /\ UNCHANGED <<capture_handle, capture_alive, stop_pc, stop_timeout, stop_sent, stop_waits, graceful, stop_results>>
    /\ StopUnchanged

\* A bounded wait expires with the process still running: the next signal
\* is sent.  The wait after SIGKILL has no timeout.
WaitTimesOut ==
    /\ stop_pc \in {"wait_quit", "wait_sigint", "wait_sigterm"}
    /\ capture_alive
    /\ stop_elapsed' = 0
    /\ LET e == Escalation(stop_pc, stop_timeout)
       IN  /\ stop_elapsed >= e.waited
           /\ stop_waits' = Append(stop_waits, stop_elapsed)
           /\ stop_sent' = Append(stop_sent, e.signal)
           /\ stop_pc' = e.next
    /\ graceful' = FALSE
    /\ UNCHANGED <<capture_handle, capture_alive, stop_timeout, stop_results>>
    /\ StopUnchanged

\* The ffmpeg process exits: on its own, or because of what it was sent.
CaptureExits ==
    /\ capture_alive
    /\ capture_alive' = FALSE
    /\ UNCHANGED <<capture_handle, stop_pc, stop_timeout, stop_sent, stop_elapsed, stop_waits, graceful, stop_results>>
    /\ StopUnchanged

NextStop ==
    \/ StartCapture
    \/ StopCall
    \/ WaitReturns
    \/ WaitContinues
    \/ WaitTimesOut
    \/ CaptureExits

SpecStop == InitStop /\ [][NextStop]_vars

(***************************************************************************)
(* Properties of the segment computer.                                     *)
(***************************************************************************)
Computed == pc = "computed"

\* floor(seconds * tickrate), written out.
SecondsToTicks(seconds, rate) == (seconds[1] * rate[1]) \div (seconds[2] * rate[2])

\* The death-lookup span of round i: [freeze_end or prestart, end or (next
\* round's prestart, or total_ticks)].
SpanLo(i) ==
    IF rounds[i].freeze_end_tick # None THEN rounds[i].freeze_end_tick
    ELSE rounds[i].prestart_tick

SpanHi(i) ==
    IF rounds[i].end_tick # None THEN rounds[i].end_tick
    ELSE IF i < Len(rounds) THEN rounds[i + 1].prestart_tick ELSE total_ticks

DeathTicksIn(i) ==
    {deaths[j].tick : j \in {k \in 1 .. Len(deaths) : SpanLo(i) <= deaths[k].tick /\ deaths[k].tick <= SpanHi(i)}}

MinOf(S) == CHOOSE x \in S : \A y \in S : x <= y

\* Indices of the pre-merge segments that round i contributed.
EmittedFor(i) == {k \in 1 .. Len(per_round_segments) : per_round_segments[k].round_num = i}

\* C1: for a non-empty round list the returned list is sorted ascending by
\* start_tick, and a.end_tick < b.start_tick for every a before b (segments
\* neither overlap nor touch).
C1_SortedDisjoint ==
    (Computed /\ rounds # <<>>) =>
        \A a \in 1 .. Len(alive_segments), b \in 1 .. Len(alive_segments) :
            a < b => /\ alive_segments[a].start_tick <= alive_segments[b].start_tick
                     /\ alive_segments[a].end_tick < alive_segments[b].start_tick

C1_Witness ==
    /\ Computed
    /\ deaths # <<>>
    /\ Len(alive_segments) >= 2

\* C2: every returned segment, fused or not, has end_tick > start_tick, and its
\* start_time and end_time are its own start_tick and end_tick divided by the
\* tick rate (time * tickrate = tick).
C2_ValidAndTimed ==
    Computed =>
        \A k \in 1 .. Len(alive_segments) :
            LET seg == alive_segments[k]
            IN  /\ seg.end_tick > seg.start_tick
                /\ RatMul(seg.start_time, tickrate) = RatInt(seg.start_tick)
                /\ RatMul(seg.end_time, tickrate) = RatInt(seg.end_tick)

\* Two per-round segments were fused and the later one moved the end.
C2_Witness ==
    /\ Computed
    /\ Len(per_round_segments) = 2
    /\ Len(alive_segments) = 1
    /\ per_round_segments[2].end_tick > per_round_segments[1].end_tick
    /\ alive_segments[1].end_tick = per_round_segments[2].end_tick
    /\ tickrate # RatInt(1)

\* C3: (deaths sorted by tick) a round with a death tick in its inclusive
\* lookup span gets a segment that ends at the lowest such tick with reason
\* "death", and contributes no other segment.
C3_DeathEndsSegment ==
    Computed =>
        \A i \in 1 .. Len(rounds) :
            DeathTicksIn(i) # {} =>
                /\ round_candidates[i].end_tick = MinOf(DeathTicksIn(i))
                /\ round_candidates[i].reason_ended = "death"
                /\ Cardinality(EmittedFor(i)) <= 1
                /\ \A k \in EmittedFor(i) : per_round_segments[k] = round_candidates[i]

\* The only death of the round is exactly at the end tick of its span, and the
\* round's segment is emitted.
C3_Witness ==
    /\ Computed
    /\ \E i \in 1 .. Len(rounds) :
        /\ DeathTicksIn(i) = {SpanHi(i)}
        /\ rounds[i].end_tick # None
        /\ Cardinality(EmittedFor(i)) = 1

\* C4: a round without a death in its lookup span gets a segment that starts
\* at max(0, freeze_end - buffer_before_ticks), or at max(0, prestart + 15 s of
\* ticks - buffer_before_ticks) without freeze_end; that ends at end +
\* buffer_after_ticks ("round_end"), or without end_tick at the next round's
\* prestart / total_ticks ("demo_end"); and that is emitted iff end > start.
C4_ExpectedStart(i) ==
    LET bb == SecondsToTicks(buffer_before_round, tickrate)
        raw == IF rounds[i].freeze_end_tick # None
               THEN rounds[i].freeze_end_tick - bb
               ELSE rounds[i].prestart_tick + SecondsToTicks(RatInt(15), tickrate) - bb
    IN  IF raw < 0 THEN 0 ELSE raw

C4_ExpectedEnd(i) ==
    IF rounds[i].end_tick # None
    THEN rounds[i].end_tick + SecondsToTicks(buffer_after_round_end, tickrate)
    ELSE SpanHi(i)

C4_SurvivedRound ==
    Computed =>
        \A i \in 1 .. Len(rounds) :
            DeathTicksIn(i) = {} =>
                /\ round_candidates[i].start_tick = C4_ExpectedStart(i)
                /\ round_candidates[i].end_tick = C4_ExpectedEnd(i)
                /\ round_candidates[i].reason_ended =
                       (IF rounds[i].end_tick # None THEN "round_end" ELSE "demo_end")
                /\ Cardinality(EmittedFor(i)) =
                       (IF C4_ExpectedEnd(i) > C4_ExpectedStart(i) THEN 1 ELSE 0)
                /\ \A k \in EmittedFor(i) : per_round_segments[k] = round_candidates[i]

\* A round without freeze_end and without end_tick survives and its segment,
\* started from the 15 s estimate, is emitted.
C4_Witness ==
    /\ Computed
    /\ \E i \in 1 .. Len(rounds) :
        /\ rounds[i].freeze_end_tick = None
        /\ rounds[i].end_tick = None
        /\ DeathTicksIn(i) = {}
        /\ Cardinality(EmittedFor(i)) = 1
        /\ C4_ExpectedStart(i) > 0


AllRoundsComplete ==
    \A i \in 1 .. Len(rounds) :
        rounds[i].freeze_end_tick # None /\ rounds[i].end_tick # None

C5_Valid(i) == C4_ExpectedEnd(i) > C4_ExpectedStart(i)

\* No two per-round spans overlap or touch.
C5_Apart ==
    \A i \in 1 .. Len(rounds), j \in 1 .. Len(rounds) :
        i # j => \/ C4_ExpectedEnd(i) < C4_ExpectedStart(j)
                 \/ C4_ExpectedEnd(j) < C4_ExpectedStart(i)

C8_NoDeathInsideSegment ==
    Computed =>
        \A k \in 1 .. Len(alive_segments), i \in 1 .. Len(rounds) :
            \A t \in DeathTicksIn(i) :
                ~(alive_segments[k].start_tick < t /\ t < alive_segments[k].end_tick)


(***************************************************************************)
(* Properties of _merge_alive_segments.                                    *)
(***************************************************************************)
Fused(st) == st.current.start_tick <= st.prev.end_tick

\* C6 (as claimed): whenever a segment is fused into the previous output
\* segment (current.start_tick <= previous.end_tick), the fused segment keeps
\* the earlier start, has end_tick / end_time equal to the maximum of the two
\* ends, and carries the reason_ended of the current segment.
C6_FusedTakesCurrentReason ==
    \A n \in 1 .. Len(merge_steps) :
        LET st == merge_steps[n]
        IN  Fused(st) =>
                /\ st.after.start_tick = st.prev.start_tick
                /\ st.prev.start_tick <= st.current.start_tick
                /\ st.after.start_time = st.prev.start_time
                /\ st.after.end_tick = Max(st.prev.end_tick, st.current.end_tick)
                /\ st.after.end_time = RatMax(st.prev.end_time, st.current.end_time)
                /\ st.after.reason_ended = st.current.reason_ended

\* C6 (amended): ... and carries the reason_ended of the segment that ends
\* later: the current segment's if current.end_tick > previous.end_tick,
\* otherwise the previous output segment's, which is left as it was.
C6_FusedTakesLaterEndingReason ==
    \A n \in 1 .. Len(merge_steps) :
        LET st == merge_steps[n]
        IN  Fused(st) =>
                /\ st.after.start_tick = st.prev.start_tick
                /\ st.prev.start_tick <= st.current.start_tick
                /\ st.after.start_time = st.prev.start_time
                /\ st.after.end_tick = Max(st.prev.end_tick, st.current.end_tick)
                /\ st.after.end_time = RatMax(st.prev.end_time, st.current.end_time)
                /\ st.after.reason_ended =
                       (IF st.current.end_tick > st.prev.end_tick
                        THEN st.current.reason_ended
                        ELSE st.prev.reason_ended)
                /\ (st.current.end_tick <= st.prev.end_tick => st.after = st.prev)

\* A segment with another reason is fused into a segment that ends no earlier.
C6_Witness ==
    /\ Computed
    /\ \E n \in 1 .. Len(merge_steps) :
        /\ Fused(merge_steps[n])
        /\ merge_steps[n].current.end_tick <= merge_steps[n].prev.end_tick
        /\ merge_steps[n].current.reason_ended # merge_steps[n].prev.reason_ended

\* C7: merging is idempotent: merging the merged list gives the same list,
\* element by element.
C7_MergeIdempotent ==
    pc = "remerged" => remerged = alive_segments

\* The first merge fused something and still left two segments.
C7_Witness ==
    /\ pc = "remerged"
    /\ Len(per_round_segments) = 3
    /\ Len(alive_segments) = 2
    /\ \E n \in 1 .. Len(merge_steps) : Fused(merge_steps[n])


(***************************************************************************)
(* Properties of the clock aligner.                                        *)
(***************************************************************************)
Remapped == pc = "post_done" /\ post_outcome \in {"trim", "keep_original"} /\ alive_segments # <<>>

\* C9: every video-time segment the remap emits satisfies
\* 0 <= video_start < video_end <= video_duration, whatever the timeline, the
\* video duration and the startup offset (computed or overridden, negative
\* overrides included).
C9_VideoSegmentsInBounds ==
    \A k \in 1 .. Len(video_segments) :
        /\ RatLeq(RatInt(0), video_segments[k][1])
        /\ RatLess(video_segments[k][1], video_segments[k][2])
        /\ RatLeq(video_segments[k][2], video_duration)

\* With a negative override one segment is cut at 0 and one at the video's end.
C9_Witness ==
    /\ Remapped
    /\ startup_time_override # NoTime
    /\ RatLess(startup_time_override, RatInt(0))
    /\ \E k \in 1 .. Len(video_segments), n \in 1 .. Len(alive_segments) :
           /\ video_segments[k][1] = RatInt(0)
           /\ RatLess(RatAdd(startup_time, alive_segments[n].start_time), RatInt(0))
    /\ \E k \in 1 .. Len(video_segments) :
           /\ video_segments[k][2] = video_duration
           /\ RatLess(video_duration, RatAdd(startup_time, alive_segments[Len(alive_segments)].end_time))

\* The spans [offset + s, offset + e] of the alive segments, clamped into
\* [0, video_duration], those longer than 0.5 s, in order.
RECURSIVE C10_Expected(_, _)
C10_Expected(n, offset) ==
    IF n = 0 THEN <<>>
    ELSE LET lo == RatAdd(offset, alive_segments[n].start_time)
             hi == RatAdd(offset, alive_segments[n].end_time)
             clo == IF RatLess(lo, RatInt(0)) THEN RatInt(0) ELSE lo
             chi == IF RatLess(video_duration, hi) THEN video_duration ELSE hi
         IN  IF RatLess(Rat(1, 2), RatSub(chi, clo))
             THEN Append(C10_Expected(n - 1, offset), <<clo, chi>>)
             ELSE C10_Expected(n - 1, offset)

\* C10: without an override the startup offset is max(0, video_duration -
\* demo_duration), 0 when the difference is negative, and each alive segment
\* [s, e] is remapped to [offset + s, offset + e] before clamping.
C10_ComputedOffset ==
    (Remapped /\ startup_time_override = NoTime) =>
        LET diff == RatSub(video_duration, demo_duration)
            offset == IF RatLess(diff, RatInt(0)) THEN RatInt(0) ELSE diff
        IN  /\ startup_time = offset
            /\ video_segments = C10_Expected(Len(alive_segments), offset)

\* The worked example: offset 30 s, [10 s, 100 s] maps to [40 s, 130 s].
C10_Witness ==
    /\ Remapped
    /\ video_duration = RatInt(150)
    /\ demo_duration = RatInt(120)
    /\ startup_time = RatInt(30)
    /\ alive_segments[1].start_time = RatInt(10)
    /\ alive_segments[1].end_time = RatInt(100)
    /\ video_segments = <<<<RatInt(40), RatInt(130)>>>>

\* A negative difference gave offset 0 and segments were still kept.
C10_WitnessNegative ==
    /\ Remapped
    /\ startup_time_override = NoTime
    /\ RatLess(video_duration, demo_duration)
    /\ startup_time = RatInt(0)
    /\ video_segments # <<>>


\* C11: with startup_time_override supplied the offset used for the remap is
\* that value unchanged, and the keep segments are determined by the alive
\* segments, the video duration and the override alone: the end marker, the
\* header duration and the rounds have no effect on them, and the trim is
\* never refused for want of a demo duration.
C11_OverrideUsedUnchanged ==
    (pc = "post_done" /\ alive_segments # <<>> /\ startup_time_override # NoTime) =>
        /\ post_outcome # "no_demo_duration"
        /\ startup_time = startup_time_override
        /\ video_segments = C10_Expected(Len(alive_segments), startup_time_override)

\* A negative override, differing from video_duration - demo_duration, used
\* while an end marker was in the log.
C11_Witness ==
    /\ pc = "post_done"
    /\ post_outcome = "trim"
    /\ startup_time_override = HalfSecs(0 - 1)
    /\ demo_end_tick = 2
    /\ startup_time # RatSub(video_duration, demo_duration)
    /\ startup_time = startup_time_override

C12_MarkerUsable ==
    demo_end_tick # None /\ RatLess(RatInt(0), tickrate) /\ demo_end_tick # 0

C12_HeaderUsable == RatLess(RatInt(0), total_duration)

C12_RoundsWithEnd == {i \in 1 .. Len(rounds) : rounds[i].end_tick # None}

C12_LastOf(S) == CHOOSE i \in S : \A j \in S : j <= i

C12_SegmentSource ==
    RatAdd(alive_segments[Len(alive_segments)].end_time, RatInt(5))

\* C12 (as claimed): demo_duration is the first usable of (1) end-marker tick /
\* tick rate, (2) header duration, (3) the last round's end time + 5 s,
\* (4) the last alive segment's end time + 5 s; source (3) is usable when the
\* last round has an end.
C12_FirstUsableSourceLastRound ==
    (pc = "post_done" /\ alive_segments # <<>>) =>
        demo_duration =
            IF C12_MarkerUsable THEN TickTime(demo_end_tick, tickrate)
            ELSE IF C12_HeaderUsable THEN total_duration
            ELSE IF rounds # <<>> /\ rounds[Len(rounds)].end_tick # None
                 THEN RatAdd(rounds[Len(rounds)].end_time, RatInt(5))
            ELSE C12_SegmentSource

\* C12 (amended): as above, with source (3) the end time + 5 s of the last
\* round that has an end tick, usable when any round has one; a marker at
\* tick 0 and a header duration of 0 are not usable.
C12_FirstUsableSource ==
    (pc = "post_done" /\ alive_segments # <<>>) =>
        demo_duration =
            IF C12_MarkerUsable THEN TickTime(demo_end_tick, tickrate)
            ELSE IF C12_HeaderUsable THEN total_duration
            ELSE IF C12_RoundsWithEnd # {}
                 THEN RatAdd(rounds[C12_LastOf(C12_RoundsWithEnd)].end_time, RatInt(5))
            ELSE C12_SegmentSource

\* The marker is used although the header gives another duration.
C12_Witness ==
    /\ pc = "post_done"
    /\ alive_segments # <<>>
    /\ C12_MarkerUsable
    /\ C12_HeaderUsable
    /\ total_duration # TickTime(demo_end_tick, tickrate)
    /\ demo_duration = TickTime(demo_end_tick, tickrate)


(***************************************************************************)
(* Properties of tick navigation.                                          *)
(***************************************************************************)
Sent(key) == {k \in 1 .. Len(commands) : commands[k].key = key}

NonTrivial(t) == t.unpause_video_time > t.pause_video_time

\* C13: after k death signals, k below the number of alive segments, exactly
\* k transitions are recorded, each non-trivial and each with a seek and a
\* resume issued for it, the cursor is k, and the session has not ended with
\* "segments_complete".
C13_DeathsBelowSegmentCount ==
    (nav_pc \in {"loop", "returned"} /\ deaths_seen < Len(alive_segments)) =>
        /\ Len(transitions) = deaths_seen
        /\ current_segment_index = deaths_seen
        /\ exit_reason # "segments_complete"
        /\ \A k \in 1 .. Len(transitions) :
               /\ NonTrivial(transitions[k])
               /\ transitions[k].to_tick = alive_segments[k + 1].start_tick
               /\ \E c \in Sent("demo_gototick") : commands[c].arg = transitions[k].to_tick
        /\ Cardinality(Sent("demo_gototick")) = deaths_seen
        /\ Cardinality(Sent("F6")) = deaths_seen

\* Three segments, two deaths: two transitions, cursor 2, still in the loop.
C13_Witness ==
    /\ nav_pc = "loop"
    /\ Len(alive_segments) = 3
    /\ deaths_seen = 2
    /\ Len(transitions) = 2
    /\ current_segment_index = 2

C14_AtEnd ==
    /\ current_segment_index = deaths_seen
    /\ current_segment_index <= Len(alive_segments)
    /\ Len(transitions) = deaths_seen
    /\ (exit_reason = "segments_complete") = (current_segment_index = Len(alive_segments))
    /\ current_segment_index = Len(alive_segments) =>
           /\ nav_pc = "returned"
           /\ LET final == transitions[Len(transitions)]
              IN  final.pause_video_time = final.unpause_video_time
           /\ Cardinality(Sent("F7")) = Len(alive_segments)
           /\ Cardinality(Sent("demo_gototick")) = Len(alive_segments) - 1
           /\ Cardinality(Sent("F6")) = Len(alive_segments) - 1

C14_Step ==
    /\ deaths_seen' # deaths_seen =>
           /\ deaths_seen' = deaths_seen + 1
           /\ current_segment_index' = current_segment_index + 1
    /\ nav_pc = "returned" =>
           /\ transitions' = transitions
           /\ current_segment_index' = current_segment_index
           /\ nav_pc' = "returned"

\* C14: each death signal advances the cursor by exactly one; when the cursor
\* reaches the segment count the final transition has pause_video_time =
\* unpause_video_time, a pause but no seek and no resume was issued for it, and
\* the loop has returned "segments_complete"; after the return no transition
\* is appended and the cursor never exceeds the segment count.
C14_FinalDeathCompletes == [](nav_pc # "idle" => C14_AtEnd) /\ [][C14_Step]_vars

\* Two segments, two deaths: the loop returned "segments_complete".
C14_Witness ==
    /\ exit_reason = "segments_complete"
    /\ Len(alive_segments) = 2
    /\ current_segment_index = 2
    /\ Len(transitions) = 2

\* C15: every recorded transition has unpause_video_time >= pause_video_time,
\* transitions are in non-decreasing pause_video_time order, and the k-th
\* transition, when not the final one, goes from segment k's end_tick to
\* segment k+1's start_tick.
C15_TransitionsWellFormed ==
    /\ \A k \in 1 .. Len(transitions) :
           /\ transitions[k].unpause_video_time >= transitions[k].pause_video_time
           /\ k > 1 => transitions[k - 1].pause_video_time <= transitions[k].pause_video_time
           /\ k < Len(alive_segments) =>
                  /\ transitions[k].from_tick = alive_segments[k].end_tick
                  /\ transitions[k].to_tick = alive_segments[k + 1].start_tick

\* Two transitions between three segments, paused at different times.
C15_Witness ==
    /\ Len(alive_segments) = 3
    /\ Len(transitions) = 2
    /\ transitions[1].pause_video_time < transitions[2].pause_video_time
    /\ transitions[2].from_tick = alive_segments[2].end_tick

\* C16: the loop returns "demo_ended" only after reading a pause line whose
\* tick is at least the last alive segment's end_tick; pause lines with a
\* smaller tick, those of the loop's own pauses included, never end the
\* session.
C16_DemoEndedOnlyPastLastSegment ==
    exit_reason = "demo_ended" =>
        \E k \in 1 .. log_position :
            /\ console_log[k].kind = "paused"
            /\ console_log[k].tick >= MinEndTick(alive_segments)

\* A pause of the loop's own, below the last segment's end, was read and the
\* session went on until the demo ran out.
C16_Witness ==
    /\ exit_reason = "demo_ended"
    /\ Len(transitions) >= 1
    /\ \E k \in 1 .. log_position :
           /\ console_log[k].kind = "paused"
           /\ console_log[k].by_loop
           /\ console_log[k].tick < MinEndTick(alive_segments)
    /\ \E k \in 1 .. log_position :
           /\ console_log[k].kind = "paused"
           /\ ~console_log[k].by_loop


(***************************************************************************)
(* Properties of a recording session.                                      *)
(***************************************************************************)
\* C17 (as claimed): a session that ended because the viewer was found not
\* running is reported as not successful, and the pov pipeline starts no trim
\* for it.
C17_ViewerExitIsFailure ==
    (rec_pc \in {"returned", "pov_done"} /\ exit_reason = "cs2_exited") =>
        /\ ~success
        /\ ~trim_started

\* The other live-session failures are reported as failures and not trimmed.
C17_OtherFailuresNotTrimmed ==
    (rec_pc \in {"returned", "pov_done"} /\ exit_reason \in {"ffmpeg_stopped", "timeout", "interrupted"}) =>
        /\ ~success
        /\ ~trim_started

TeardownSteps == [k \in 1 .. Len(teardown) |-> teardown[k].step]

TeardownRank(step) ==
    IF step = "ffmpeg_stop" THEN 1 ELSE IF step = "cs2_terminate" THEN 2 ELSE 3

\* C18: on every way out of a session after capture was started the cleanup
\* stops capture first, then asks the viewer to terminate, then saves the
\* console log; capture is not running when the viewer is asked to terminate,
\* and nothing of the cleanup happens before the session is left.
C18_TeardownOrder ==
    /\ rec_pc \in {"capturing", "loop", "finally"} => teardown = <<>>
    /\ rec_pc \in {"returned", "raised", "pov_done"} =>
           /\ teardown # <<>>
           /\ teardown[1].step = "ffmpeg_stop"
           /\ ~ffmpeg_running
           /\ ~cs2_running
           /\ \A j, k \in 1 .. Len(teardown) :
                  j < k => TeardownRank(teardown[j].step) < TeardownRank(teardown[k].step)
           /\ \A k \in 1 .. Len(teardown) :
                  teardown[k].step # "ffmpeg_stop" => ~teardown[k].capture_running
           /\ (log_exists \/ console_log # <<>>) = (teardown[Len(teardown)].step = "log_saved")

\* A user interrupt while capture and viewer ran: all three steps, in order.
C18_Witness ==
    /\ rec_pc = "returned"
    /\ exit_reason = "interrupted"
    /\ TeardownSteps = <<"ffmpeg_stop", "cs2_terminate", "log_saved">>
    /\ teardown[1].capture_running
    /\ ~teardown[2].capture_running

\* The same steps after the exception of the tick-navigation path.
C18_WitnessException ==
    /\ rec_pc = "raised"
    /\ TeardownSteps = <<"ffmpeg_stop", "cs2_terminate">>


(***************************************************************************)
(* Properties of the trim plan.                                            *)
(***************************************************************************)
\* The plan the aligner would have made from the alive segments.
AlignedPlan ==
    VideoSegments(alive_segments, Len(alive_segments),
                  StartupTime(video_duration,
                              ResolveDemoDuration(demo_end_tick, tickrate, total_duration, rounds, alive_segments),
                              startup_time_override),
                  video_duration)

\* A keep interval starts at or after 0, is longer than 0.5 s, and has no
\* part of a transition's pause-to-unpause stretch inside it.
KeepClearOfTransitions(span) ==
    /\ RatLeq(RatInt(0), span[1])
    /\ Meaningful(span)
    /\ \A k \in 1 .. Len(transitions) :
           \/ RatLeq(span[2], transitions[k].pause_video_time)
           \/ RatLeq(transitions[k].unpause_video_time, span[1])

\* C19: with a non-empty transition list the keep intervals are built from
\* the transitions (and the length of the video) alone: no demo duration and
\* no startup offset is computed, and the alive segments, the end marker, the
\* header duration, the rounds and the startup override have no effect.
C19_TransitionsExclusive ==
    (pc = "plan_done" /\ transitions # <<>>) =>
        /\ post_outcome \in {"transition_trim", "restore_raw"}
        /\ demo_duration = RatInt(0)
        /\ startup_time = RatInt(0)
        /\ video_segments = KeepSegments(transitions, video_duration)
        /\ \A k \in 1 .. Len(video_segments) : KeepClearOfTransitions(video_segments[k])

\* Transitions, a timeline, an end marker and an override together: the plan
\* is the transitions' and differs from the aligner's.
C19_Witness ==
    /\ pc = "plan_done"
    /\ transitions # <<>>
    /\ alive_segments # <<>>
    /\ demo_end_tick # None
    /\ startup_time_override # NoTime
    /\ post_outcome = "transition_trim"
    /\ AlignedPlan # <<>>
    /\ video_segments # AlignedPlan

\* C20 (as claimed): without transitions and without alive segments a legacy
\* scan of the log supplies intervals and a trim is made with them.
C20_LegacyFallbackTrims ==
    (pc = "plan_done" /\ transitions = <<>> /\ alive_segments = <<>>) =>
        post_outcome = "legacy_trim"

\* C20 (amended): without transitions and without alive segments nothing is
\* computed and nothing is trimmed; the original recording is kept.
C20_NoSourceKeepsOriginal ==
    (pc = "plan_done" /\ transitions = <<>> /\ alive_segments = <<>>) =>
        /\ post_outcome = "keep_original"
        /\ video_segments = <<>>
        /\ demo_duration = RatInt(0)
        /\ startup_time = RatInt(0)

\* A video of some length, no transitions, no alive segments: kept as it is.
C20_Witness ==
    /\ pc = "plan_done"
    /\ transitions = <<>>
    /\ alive_segments = <<>>
    /\ RatLess(RatInt(0), video_duration)
    /\ post_outcome = "keep_original"


\* The transitions are in the order handle_death appends them.
PauseOrdered(trs) ==
    \A k \in 2 .. Len(trs) : RatLeq(trs[k - 1].pause_video_time, trs[k].pause_video_time)

\* The last transition is a final one: pause_video_time = unpause_video_time.
EndsWithFinal(trs) ==
    /\ trs # <<>>
    /\ trs[Len(trs)].pause_video_time = trs[Len(trs)].unpause_video_time

\* C21 (as claimed): for a transition list ending with the final transition
\* (pause_video_time = unpause_video_time = P) no keep interval contains video
\* time later than P.
C21_NoKeepAfterFinalPause ==
    (pc = "plan_done" /\ PauseOrdered(transitions) /\ EndsWithFinal(transitions)) =>
        \A k \in 1 .. Len(video_segments) :
            RatLeq(video_segments[k][2], transitions[Len(transitions)].pause_video_time)


\* Keep intervals and transition spans together.
PlanIntervals ==
    {video_segments[k] : k \in 1 .. Len(video_segments)}
        \cup {<<transitions[k].pause_video_time, transitions[k].unpause_video_time>> : k \in 1 .. Len(transitions)}

\* A stretch that is in no keep interval and no transition span begins at 0
\* or at the end of one of them; from g it is at most 0.5 s long.
GapAtMostMinimum(g) ==
    \/ RatLeq(video_duration, g)
    \/ \E i \in PlanIntervals : RatLeq(i[1], g) /\ RatLess(g, i[2])
    \/ \E n \in {i[1] : i \in {j \in PlanIntervals : RatLess(g, j[2])}} \cup {video_duration} :
           RatLeq(g, n) /\ RatLeq(n, RatAdd(g, MinKeepSeconds))

KeepListWellFormed ==
    /\ \A k \in 1 .. Len(video_segments) :
           /\ RatLeq(RatInt(0), video_segments[k][1])
           /\ RatLess(video_segments[k][1], video_segments[k][2])
           /\ RatLeq(video_segments[k][2], video_duration)
           /\ k > 1 => RatLeq(video_segments[k - 1][2], video_segments[k][1])
           /\ \A t \in 1 .. Len(transitions) :
                  \/ RatLeq(video_segments[k][2], transitions[t].pause_video_time)
                  \/ RatLeq(transitions[t].unpause_video_time, video_segments[k][1])
    /\ \A g \in {RatInt(0)} \cup {i[2] : i \in PlanIntervals} : GapAtMostMinimum(g)

ExecutorInvoked == post_outcome \in {"trim", "transition_trim"}

\* C23: every keep interval handed to the trim executor, from transitions or
\* from remapped alive segments, is longer than 0.5 s.
C23_KeepIntervalsAboveMinimum ==
    (pc = "plan_done" /\ ExecutorInvoked) =>
        /\ video_segments # <<>>
        /\ \A k \in 1 .. Len(video_segments) :
               RatLess(Rat(1, 2), RatSub(video_segments[k][2], video_segments[k][1]))

\* The 0.5 s of video before a pause at 0.5 s is not among the intervals the
\* executor gets.
C23_Witness ==
    /\ pc = "plan_done"
    /\ post_outcome = "transition_trim"
    /\ transitions[1].pause_video_time = HalfSecs(1)
    /\ RatLess(RatInt(0), video_segments[1][1])

\* The same on the aligner's path: the only span was too short, no trim.
C23_WitnessAligned ==
    /\ pc = "plan_done"
    /\ transitions = <<>>
    /\ alive_segments # <<>>
    /\ RatLess(RatInt(0), demo_duration)
    /\ RatLess(RatInt(0), video_duration)
    /\ post_outcome = "keep_original"


\* C24 (as claimed): when the trim executor failed, the file at video_path on
\* return is the original recording, whether or not the executor left an
\* output file there.
C24_FailureRestoresOriginal ==
    (pc = "plan_done" /\ executor_result \in {"failed", "failed_partial"}) =>
        video_file = "original"

\* What holds: the original is back at video_path when the failed executor
\* left nothing there, and is still at the _raw path otherwise.
C24_OriginalNeverLost ==
    pc = "plan_done" =>
        /\ video_file = "original" \/ raw_file = "original"
        /\ executor_result = "failed" => video_file = "original" /\ raw_file = "missing"
        /\ executor_result = "failed_partial" => video_file = "partial" /\ raw_file = "original"


(***************************************************************************)
(* Properties of the comms mapping.                                        *)
(***************************************************************************)
\* x' = x - round1_freeze_end_time + sync_point, written out.
MappedStart(seg) == RatAdd(RatSub(seg.start_time, round1_freeze_end_time), r1_sync_time)

MappedEnd(seg) == RatAdd(RatSub(seg.end_time, round1_freeze_end_time), r1_sync_time)

Emitted(seg) == RatLess(RatInt(0), MappedEnd(seg))

\* The alive segments that are emitted, in input order.
EmittedSegments == SelectSeq(alive_segments, Emitted)

\* C25: the output holds, in input order, (max(0, s'), e') for exactly the
\* alive segments with e' > 0; every emitted interval has 0 <= start < end
\* and is no longer than the segment it comes from.
C25_CommsMapping ==
    pc = "comms_done" =>
        /\ Len(comms_segments) = Len(EmittedSegments)
        /\ \A k \in 1 .. Len(comms_segments) :
               LET seg == EmittedSegments[k]
                   out == comms_segments[k]
               IN  /\ out[2] = MappedEnd(seg)
                   /\ out[1] = (IF RatLess(MappedStart(seg), RatInt(0)) THEN RatInt(0) ELSE MappedStart(seg))
                   /\ RatLeq(RatInt(0), out[1])
                   /\ RatLess(out[1], out[2])
                   /\ RatLeq(RatSub(out[2], out[1]), RatSub(seg.end_time, seg.start_time))

\* One segment dropped, and one straddling comms time 0 kept from 0 on,
\* shorter than it was.
C25_Witness ==
    /\ pc = "comms_done"
    /\ Len(alive_segments) = 2
    /\ Len(comms_segments) = 1
    /\ \E k \in 1 .. 2 :
           /\ RatLess(MappedStart(alive_segments[k]), RatInt(0))
           /\ Emitted(alive_segments[k])
           /\ comms_segments[1] = <<RatInt(0), MappedEnd(alive_segments[k])>>
           /\ RatLess(RatSub(comms_segments[1][2], comms_segments[1][1]),
                      RatSub(alive_segments[k].end_time, alive_segments[k].start_time))

\* C26 (as claimed): every alive segment whose end_time is below
\* sync_point - round1_freeze_end_time is dropped.
C26_DroppedBelowSyncMinusRound1 ==
    pc = "comms_done" =>
        \A k \in 1 .. Len(alive_segments) :
            RatLess(alive_segments[k].end_time, RatSub(r1_sync_time, round1_freeze_end_time)) =>
                \A j \in 1 .. Len(comms_segments) :
                    comms_segments[j][2] # MappedEnd(alive_segments[k])

\* C26 (amended): an alive segment is dropped exactly when its end_time is at
\* or below round1_freeze_end_time - sync_point.
C26_DroppedAtOrBelowRound1MinusSync ==
    pc = "comms_done" =>
        \A k \in 1 .. Len(alive_segments) :
            RatLeq(alive_segments[k].end_time, RatSub(round1_freeze_end_time, r1_sync_time))
                = (\A j \in 1 .. Len(comms_segments) :
                       comms_segments[j][2] # MappedEnd(alive_segments[k]))

\* A segment ending exactly at round1_freeze_end_time - sync_point is
\* dropped, a later one is kept.
C26_Witness ==
    /\ pc = "comms_done"
    /\ Len(alive_segments) = 2
    /\ alive_segments[1].end_time = RatSub(round1_freeze_end_time, r1_sync_time)
    /\ Len(comms_segments) = 1
    /\ comms_segments[1][2] = MappedEnd(alive_segments[2])


(***************************************************************************)
(* Properties of the settings.                                             *)
(***************************************************************************)
\* C27: each setting runs with the command line's value if a flag was given,
\* else the job's override if the job has one, else the config default if
\* there is one, else the hardcoded default.
C27_SettingPriority ==
    pc = "settings_done" =>
        \A key \in SettingKeys :
            merged_args[key] =
                IF cli_args[key] # "None" THEN cli_args[key]
                ELSE IF job_overrides[key] # "absent" THEN job_overrides[key]
                ELSE IF config_defaults[key] # "absent" THEN config_defaults[key]
                ELSE HARDCODED_DEFAULTS[key]

\* All four layers decide one setting each or disagree: the flag beats the
\* job and the defaults, the job beats the defaults, and a setting nobody
\* gives gets the hardcoded value.
C27_Witness ==
    /\ pc = "settings_done"
    /\ cli_args["framerate"] = "30"
    /\ job_overrides["framerate"] = "60"
    /\ merged_args["framerate"] = "30"
    /\ cli_args["no_hud"] = "None"
    /\ job_overrides["no_hud"] = "True"
    /\ config_defaults["no_hud"] = "False"
    /\ merged_args["no_hud"] = "True"
    /\ cli_args["audio_device"] = "None"
    /\ job_overrides["audio_device"] = "absent"
    /\ config_defaults["audio_device"] = "absent"
    /\ merged_args["audio_device"] = "None"


(***************************************************************************)
(* Properties of FFmpegCapture.stop.                                       *)
(***************************************************************************)
IsSignal(sent) == sent # "q"

IsPrefix(a, b) == Len(a) <= Len(b) /\ a = SubSeq(b, 1, Len(a))

LastStop == stop_results[Len(stop_results)]

\* C28: what a call sent is an initial part of quit, SIGINT, SIGTERM,
\* SIGKILL, each signal preceded by one expired wait of its full length; when
\* stop has returned the process has exited and is_running() is False; with
\* a process the value returned is True exactly when neither SIGTERM nor
\* SIGKILL was sent; a stop that follows a stop returns True and sends nothing.
C28_StopEscalation ==
    /\ IsPrefix(stop_sent, <<"q", "SIGINT", "SIGTERM", "SIGKILL">>)
    /\ stop_waits = SubSeq(<<stop_timeout, EscalationWait, EscalationWait>>, 1, Len(SelectSeq(stop_sent, IsSignal)))
    /\ stop_pc \in {"wait_quit", "wait_sigint", "wait_sigterm", "wait_sigkill"} => capture_handle
    /\ stop_pc = "returned" =>
           /\ ~capture_alive
           /\ ~is_running
           /\ LastStop.value = (\A i \in DOMAIN stop_sent : stop_sent[i] \notin {"SIGTERM", "SIGKILL"})
           /\ ~LastStop.process => LastStop.value /\ stop_sent = <<>>
           /\ ~capture_handle

\* A stop that needed SIGKILL returned False, and the stop repeated after
\* it returned True without sending anything.
C28_Witness ==
    /\ stop_pc = "returned"
    /\ stop_results = <<StopResult(FALSE, TRUE), StopResult(TRUE, FALSE)>>
    /\ stop_sent = <<>>

\* A stop whose process exited after SIGINT returned True.
C28_WitnessSigint ==
    /\ stop_pc = "returned"
    /\ stop_sent = <<"q", "SIGINT">>
    /\ LastStop = StopResult(TRUE, TRUE)

\* A stop that had to send SIGKILL has returned False.
C28_WitnessKill ==
    /\ stop_pc = "returned"
    /\ stop_sent = <<"q", "SIGINT", "SIGTERM", "SIGKILL">>
    /\ LastStop = StopResult(FALSE, TRUE)


(***************************************************************************)
(* Properties of the demo-duration resolution.                             *)
(***************************************************************************)
\* The timeline the resolution is reached with: at least one alive segment,
\* each with end_tick > start_tick >= 0, and a positive tick rate.
C29_ResolutionReached ==
    /\ alive_segments # <<>>
    /\ \A i \in DOMAIN alive_segments :
           alive_segments[i].end_tick > alive_segments[i].start_tick /\ alive_segments[i].start_tick >= 0
    /\ RatLess(RatInt(0), tickrate)

\* C29: when postprocess_video has resolved the demo duration for such a
\* timeline, the duration is positive and the outcome is not "could not
\* determine demo duration".
C29_DurationAlwaysResolved ==
    pc = "post_done" /\ C29_ResolutionReached =>
        /\ RatLess(RatInt(0), demo_duration)
        /\ post_outcome # "no_demo_duration"

\* Neither the end marker nor the header gave a duration, and a later
\* source did.
C29_Witness ==
    /\ pc = "post_done"
    /\ C29_ResolutionReached
    /\ demo_end_tick \in {None, 0}
    /\ total_duration = RatInt(0)
    /\ RatLess(RatInt(0), demo_duration)

\* The last alive segment is the source that gave the duration.
C29_WitnessLastSegment ==
    /\ C29_Witness
    /\ LastRoundEndDuration(rounds, Len(rounds)) = RatInt(0)


(***************************************************************************)
(* Properties of the death-marker polling.                                 *)
(***************************************************************************)
\* The unread part of the log holds a death marker written since the loop
\* started.
NewMarkerUnread ==
    \E k \in Unread(console_log, death_log_position) :
        console_log[k].kind = "shutdown" /\ console_log[k] # EarlierShutdownLine

\* C30: the segment cursor advances only in a poll whose unread log holds a
\* death marker written after the loop started.
C30_OnlyNewMarkersAdvance ==
    [][current_segment_index' # current_segment_index => NewMarkerUnread]_vars

\* Each stretch of the log is read by at most one death poll: the position
\* never moves back, and a poll that ran leaves it at the end of what the
\* log held.
C30_EachStretchPolledOnce ==
    [][/\ death_log_position' >= death_log_position
       /\ death_log_position' # death_log_position => death_log_position' = Len(console_log)]_vars

\* The cursor has advanced although the viewer has not played a tick since
\* the loop started.
C30_EarlierMarkerAdvanced ==
    /\ current_segment_index = 1
    /\ \A k \in DOMAIN console_log : console_log[k].kind = "shutdown" => console_log[k] = EarlierShutdownLine

=============================================================================
